---- MODULE Spec2Model ----
(***************************************************************************)
(* Reactive relation storage of RogueMage (src/src/storage.rs) and the     *)
(* lazy sparse-matrix views it is built on (src/src/sparse_matrices.rs).   *)
(*                                                                         *)
(* Weights are f32 in the source.  Every weight that occurs here is a      *)
(* small integer (base relations hold 0 or 1, products and sums of those   *)
(* are exact in f32), so weights are modelled as Int.                      *)
(***************************************************************************)
EXTENDS Integers, Sequences, FiniteSets, TLC

(***************************************************************************)
(* Bounds of the model.                                                    *)
(***************************************************************************)
MaxUpdates == 4
MaxUpdatesAll == 1
MaxTicks == 2

\* The objects of the world.  Two are enough for a source and a target to be
\* connected through two distinct intermediate objects.
Object == {1, 2}
NumObjects == Cardinality(Object)
Pair == Object \X Object

\* f32 weights a caller stores in a base relation: absent (0.0) or present (1.0)
BaseWeight == {0, 1}

(***************************************************************************)
(* SpellSelector values that are registered in this model.                 *)
(*   "Is"       Is(p)                                                      *)
(*   "Adjacent" Adjacent                                                   *)
(*   "Not"      Not(Is(p))                                                 *)
(*   "BindIA"   Bind(Is(p), Adjacent)                                      *)
(*   "BindAA"   Bind(Adjacent, Adjacent)                                   *)
(*   "BindBI"   Bind(Bind(Is(p), Adjacent), Is(p))                         *)
(***************************************************************************)
SpellSelector == {"Is", "Adjacent", "Not", "BindIA", "BindAA", "BindBI"}

\* the selectors whose recompute_cache runs to its end
BindSelectors == {"Is", "Adjacent", "BindIA", "BindBI"}

\* BlockProperties::iter_all
BlockProperties == {"MOVED_THIS_STEP", "POWDER_STABLE", "BURNING", "CHANGED_THIS_STEP"}

\* u16 material ids and bool property values a caller stores (default 0 / false)
MaterialId == {0, 1}
Bool01 == {0, 1}

IsBind(selector) == selector \in {"BindIA", "BindAA", "BindBI"}

Left(selector) ==
    CASE selector = "BindIA" -> "Is"
      [] selector = "BindAA" -> "Adjacent"
      [] selector = "BindBI" -> "BindIA"

Right(selector) ==
    CASE selector = "BindIA" -> "Adjacent"
      [] selector = "BindAA" -> "Adjacent"
      [] selector = "BindBI" -> "Is"

(***************************************************************************)
(* Option<E>: None is the empty set, Some(v) is {v}.                       *)
(***************************************************************************)
None == {}
Some(v) == {v}
unwrap(opt) == CHOOSE v \in opt : TRUE
unwrap_or_default(opt) == IF opt = None THEN 0 ELSE CHOOSE v \in opt : TRUE

(***************************************************************************)
(* Digraph<N, E>: the nested HashMap is a partial function from            *)
(* (source, target) to a weight.  An outer key whose inner map is empty    *)
(* cannot be observed through get_option, entries or row and is dropped.   *)
(***************************************************************************)
EmptyDigraph == [p \in {} |-> 0]

clear(digraph) == EmptyDigraph

get_option(digraph, source, target) ==
    IF <<source, target>> \in DOMAIN digraph
    THEN Some(digraph[<<source, target>>])
    ELSE None

set_option(digraph, source, target, value) ==
    IF value = None
    THEN [p \in DOMAIN digraph \ {<<source, target>>} |-> digraph[p]]
    ELSE [p \in DOMAIN digraph \cup {<<source, target>>} |->
            IF p = <<source, target>> THEN unwrap_or_default(value) ELSE digraph[p]]

get(digraph, source, target) == unwrap_or_default(get_option(digraph, source, target))

(***************************************************************************)
(* TrackingDigraph<N, E>                                                   *)
(***************************************************************************)
EmptyTracking == [current |-> EmptyDigraph, previous |-> EmptyDigraph]

\* clear_previous that leaves the recorded changes in place
clear_previous_kept(tracking) == tracking

clear_previous(tracking) == [tracking EXCEPT !.previous = clear(tracking.previous)]

\* update without the test new_val == E::default(): a zero is stored
update_store_zero(tracking, source, target, f) ==
    LET current_val == unwrap_or_default(get_option(tracking.current, source, target))
        prev == IF get_option(tracking.previous, source, target) = None
                THEN set_option(tracking.previous, source, target, Some(current_val))
                ELSE tracking.previous
    IN  [current |-> set_option(tracking.current, source, target, Some(f[current_val])),
         previous |-> prev]

\* f is the closure f: Fn(E) -> E, a function on the weights
update(tracking, source, target, f) ==
    LET current_val == unwrap_or_default(get_option(tracking.current, source, target))
        prev == IF get_option(tracking.previous, source, target) = None
                THEN set_option(tracking.previous, source, target, Some(current_val))
                ELSE tracking.previous
        new_val == f[current_val]
    IN  [current |-> set_option(tracking.current, source, target,
                                IF new_val = 0 THEN None ELSE Some(new_val)),
         previous |-> prev]

(***************************************************************************)
(* sparse_matrices.rs.  A SparseMatrix is seen through entries(), row()    *)
(* and get(); the lazy views below are partial functions from the pairs    *)
(* their entries() enumerates to the value computed for each pair.         *)
(***************************************************************************)
\* AddSparseMatrices: entries come from the left operand, the right is read with get
add(left, right) == [p \in DOMAIN left |-> left[p] + get(right, p[1], p[2])]

\* MulSparseMatrix: scalar * matrix
mul(scalar, matrix) == [p \in DOMAIN matrix |-> scalar * matrix[p]]

\* sub(left, right) = add(left, mul(-1.0, right)).  add reads its right operand
\* with get only, and mul's get is scalar * matrix.get, which is 0 wherever the
\* matrix has no entry: the same value get gives on the view mul(-1, right).
sub(left, right) == add(left, mul(-1, right))

\* diff without the outer mul(-1.0): previous - current
diff_reversed(tracking) == sub(tracking.previous, tracking.current)

\* diff(matrix) = mul(-1.0, sub(matrix.previous(), matrix.current()))
diff(tracking) == mul(-1, sub(tracking.previous, tracking.current))

\* Enumeration order of a HashMap is arbitrary; the folds below add and
\* subtract exact values, so their result does not depend on the order and
\* one fixed order (lexicographic) is used.
AllPairs ==
    [i \in 1..(NumObjects * NumObjects) |->
        <<((i - 1) \div NumObjects) + 1, ((i - 1) % NumObjects) + 1>>]

entries(matrix) ==
    LET keys == SelectSeq(AllPairs, LAMBDA p : p \in DOMAIN matrix)
    IN  [i \in 1..Len(keys) |-> <<keys[i][1], keys[i][2], matrix[keys[i]]>>]

row(matrix, source) ==
    LET keys == SelectSeq(AllPairs, LAMBDA p : p \in DOMAIN matrix /\ p[1] = source)
    IN  [i \in 1..Len(keys) |-> <<keys[i][2], matrix[keys[i]]>>]

\* MulSparseMatrices::entries: one triple per (source, middle, target) path
RECURSIVE flat_map(_, _)
flat_map(left_entries, right) ==
    IF left_entries = <<>>
    THEN <<>>
    ELSE LET e == Head(left_entries)
             iter == row(right, e[2])
         IN  [i \in 1..Len(iter) |-> <<e[1], iter[i][1], e[3] * iter[i][2]>>]
             \o flat_map(Tail(left_entries), right)

mat_mul(left, right) == flat_map(entries(left), right)

(***************************************************************************)
(* ReactiveStorage                                                         *)
(***************************************************************************)
parents(selector) ==
    IF IsBind(selector) THEN <<Left(selector), Right(selector)>> ELSE <<>>

\* for (source, target, diff) in product { self.storage.update(source, target, |x| x + sign * diff) }
RECURSIVE fold_updates(_, _, _)
fold_updates(storage, product, sign) ==
    IF product = <<>>
    THEN storage
    ELSE LET e == Head(product)
         IN  fold_updates(update(storage, e[1], e[2], [x \in Int |-> x + (sign * e[3])]),
                          Tail(product), sign)

\* the loops of recompute_cache with the sign of their update changed
fold_first_subtracted(storage, left, right) ==
    fold_updates(storage, mat_mul(diff(left), right.current), -1)

fold_second_subtracted(storage, left, right) ==
    fold_updates(storage, mat_mul(left.current, diff(right)), -1)

fold_third_added(storage, left, right) ==
    fold_updates(storage, mat_mul(diff(left), diff(right)), 1)

\* the three loops of recompute_cache for Bind(left, right)
fold_first(storage, left, right) ==
    fold_updates(storage, mat_mul(diff(left), right.current), 1)

fold_second(storage, left, right) ==
    fold_updates(storage, mat_mul(left.current, diff(right)), 1)

fold_third(storage, left, right) ==
    fold_updates(storage, mat_mul(diff(left), diff(right)), -1)

(***************************************************************************)
(* spells.rs: selectors evaluated directly against the world.              *)
(*                                                                         *)
(* Target is Block(x, y) or Entity(entity).  A connection is an f32; the   *)
(* only connection the code ever creates is the 1.0 of SpellTarget::new,   *)
(* and products of it, so connections are modelled as Int.                 *)
(* Collider coordinates are f32 and are counted here in halves of a cell,  *)
(* so that floor and ceil differ.                                          *)
(***************************************************************************)
GRID_SIZE == 128

\* f32 property values are counted in tenths: 1.0, and the 0.1 of the mana drain
ONE == 10
DRAIN == 1

Block(x, y) == <<"Block", x, y>>
Entity(entity) == <<"Entity", entity>>
IsBlock(target) == target[1] = "Block"

\* F(value), with `value` computed once however often F reads it
Once(value, F(_)) == CHOOSE r \in {F(v) : v \in {value}} : TRUE

\* x as f32, counted in halves
as_f32(x) == 2 * x
floor(v) == v \div 2
ceil(v) == -((-v) \div 2)

\* AABBCollider { ll: pos - Vec2::splat(8.0), ur: pos + Vec2::splat(8.0) }
collider_at(pos) ==
    [ll |-> [x |-> pos[1] - as_f32(8), y |-> pos[2] - as_f32(8)],
     ur |-> [x |-> pos[1] + as_f32(8), y |-> pos[2] + as_f32(8)]]

\* AABBCollider::from_block: the cell of the block
from_block(x, y) ==
    [ll |-> [x |-> as_f32(x), y |-> as_f32(y)],
     ur |-> [x |-> as_f32(x) + as_f32(1), y |-> as_f32(y) + as_f32(1)]]

\* AABBCollider::intersects.  `touching` says whether two boxes that share
\* only a border intersect; it is fixed in the initial state and never changes.
VARIABLE touching

intersects(a, b) ==
    IF touching
    THEN /\ a.ll.x <= b.ur.x /\ b.ll.x <= a.ur.x
         /\ a.ll.y <= b.ur.y /\ b.ll.y <= a.ur.y
    ELSE /\ a.ll.x < b.ur.x /\ b.ll.x < a.ur.x
         /\ a.ll.y < b.ur.y /\ b.ll.y < a.ur.y

\* the keys of a HashMap in the order iter() yields them: any order, and
\* one fixed order (ascending) is used
RECURSIVE iter(_)
iter(keys) ==
    IF keys = {}
    THEN <<>>
    ELSE LET least == CHOOSE k \in keys : \A other \in keys : k <= other
         IN  <<least>> \o iter(keys \ {least})

\* for a in first..=last { for b in first2..=last2 { .. } }: the pairs in loop order
nested_range(first, last, first2, last2) ==
    LET width == IF last2 >= first2 THEN (last2 - first2) + 1 ELSE 0
        count == IF last >= first THEN ((last - first) + 1) * width ELSE 0
    IN  [i \in 1..count |-> <<first + ((i - 1) \div width), first2 + ((i - 1) % width)>>]

in_grid(x, y) == x >= 0 /\ x < GRID_SIZE /\ y >= 0 /\ y < GRID_SIZE

\* enum Property: Dynamic(_) and Static(_) by their names, every other name
\* is the id of a Material(_)
DynamicProperty == {"Burning", "Forwards", "Mana0", "Mana1", "Mana2"}
StaticProperty == {"IsEntity", "Liquid"}
IsDynamic(property) == property \in DynamicProperty
IsStatic(property) == property \in StaticProperty
IsMaterial(property) == ~IsDynamic(property) /\ ~IsStatic(property)

\* the material every cell is given by system_setup_block_grid
AIR == "Air"

\* Block::new: the id, and stored_properties with no flag set (color_seed and
\* damage are read by no rule)
Block_new(id) == [id |-> id, MOVED_THIS_STEP |-> FALSE, POWDER_STABLE |-> FALSE]

\* WorldInfo::get_block: None outside the grid
get_block(info, x, y) ==
    IF ~in_grid(x, y)
    THEN None
    ELSE Some(IF <<x, y>> \in DOMAIN info.blocks THEN info.blocks[<<x, y>>] ELSE Block_new(AIR))

\* WorldInfo::set_block
set_block(info, x, y, block) ==
    [info EXCEPT !.blocks =
        [c \in DOMAIN info.blocks \cup {<<x, y>>} |->
            IF c = <<x, y>> THEN block ELSE info.blocks[c]]]

\* the materials whose physics is BlockPhysics::Liquid
LiquidMaterial == {"Water", "Smoke", "Steam"}

\* WorldInfo::get: for a Dynamic property the f32 stored for (target,
\* property), 0.0 when there is none; for a Material or Static property 1.0
\* when it holds for the target and 0.0 when not
info_get(info, target, property) ==
    IF IsDynamic(property)
    THEN IF <<target, property>> \in DOMAIN info.properties
         THEN info.properties[<<target, property>>]
         ELSE 0
    ELSE IF property = "IsEntity"
         THEN IF IsBlock(target) THEN 0 ELSE ONE
         ELSE IF IsBlock(target) /\ get_block(info, target[2], target[3]) # None
              THEN LET id == unwrap(get_block(info, target[2], target[3])).id
                   IN  IF (IF property = "Liquid" THEN id \in LiquidMaterial ELSE id = property)
                       THEN ONE
                       ELSE 0
              ELSE 0

\* WorldInfo::set
info_set(info, target, property, value) ==
    [info EXCEPT !.properties =
        [k \in DOMAIN info.properties \cup {<<target, property>>} |->
            IF k = <<target, property>> THEN value ELSE info.properties[k]]]

\* for_each_adjacent without the tests against GRID_SIZE
for_each_adjacent_unbounded(info, target) ==
    IF IsBlock(target)
    THEN LET x == target[2]
             y == target[3]
             offsets == SelectSeq(nested_range(-1, 1, -1, 1),
                                  LAMBDA o : o[1] # 0 \/ o[2] # 0)
             entities == SelectSeq(iter(DOMAIN info.entity_colliders),
                                   LAMBDA entity :
                                       intersects(info.entity_colliders[entity],
                                                  from_block(x, y)))
         IN  [i \in 1..Len(offsets) |-> Block(x + offsets[i][1], y + offsets[i][2])]
             \o [i \in 1..Len(entities) |-> Entity(entities[i])]
    ELSE LET entity == target[2]
             collider == info.entity_colliders[entity]
             cells == SelectSeq(nested_range(floor(collider.ll.x), ceil(collider.ur.x),
                                             floor(collider.ll.y), ceil(collider.ur.y)),
                                LAMBDA c : TRUE)
             entities == SelectSeq(iter(DOMAIN info.entity_colliders),
                                   LAMBDA entity2 :
                                       /\ entity # entity2
                                       /\ intersects(collider,
                                                     info.entity_colliders[entity2]))
         IN  [i \in 1..Len(cells) |-> Block(cells[i][1], cells[i][2])]
             \o [i \in 1..Len(entities) |-> Entity(entities[i])]

\* for_each_adjacent of a Block without the four diagonal offsets
for_each_adjacent_orthogonal(info, target) ==
    IF IsBlock(target)
    THEN LET x == target[2]
             y == target[3]
             offsets == SelectSeq(nested_range(-1, 1, -1, 1),
                                  LAMBDA o : (o[1] = 0 \/ o[2] = 0) /\ o # <<0, 0>>
                                             /\ in_grid(x + o[1], y + o[2]))
         IN  [i \in 1..Len(offsets) |-> Block(x + offsets[i][1], y + offsets[i][2])]
    ELSE <<>>

\* Target::for_each_adjacent: the targets handed to f, in call order
for_each_adjacent(info, target) ==
    IF IsBlock(target)
    THEN LET x == target[2]
             y == target[3]
             offsets == SelectSeq(nested_range(-1, 1, -1, 1),
                                  LAMBDA o : (o[1] # 0 \/ o[2] # 0)
                                             /\ in_grid(x + o[1], y + o[2]))
             entities == SelectSeq(iter(DOMAIN info.entity_colliders),
                                   LAMBDA entity :
                                       intersects(info.entity_colliders[entity],
                                                  from_block(x, y)))
         IN  [i \in 1..Len(offsets) |-> Block(x + offsets[i][1], y + offsets[i][2])]
             \o [i \in 1..Len(entities) |-> Entity(entities[i])]
    ELSE LET entity == target[2]
             collider == info.entity_colliders[entity]
             cells == SelectSeq(nested_range(floor(collider.ll.x), ceil(collider.ur.x),
                                             floor(collider.ll.y), ceil(collider.ur.y)),
                                LAMBDA c : in_grid(c[1], c[2]))
             entities == SelectSeq(iter(DOMAIN info.entity_colliders),
                                   LAMBDA entity2 :
                                       /\ entity # entity2
                                       /\ intersects(collider,
                                                     info.entity_colliders[entity2]))
         IN  [i \in 1..Len(cells) |-> Block(cells[i][1], cells[i][2])]
             \o [i \in 1..Len(entities) |-> Entity(entities[i])]

\* SpellTarget::new
SpellTarget_new(target) == [target |-> target, connection |-> 1]

\* enum SpellSelector, as evaluated by select
Adjacent == <<"Adjacent">>
Is(property) == <<"Is", property>>
Not(selector) == <<"Not", selector>>
Bind(left, right) == <<"Bind", left, right>>

RECURSIVE select(_, _, _), select_spell(_, _, _), SpellSelector_bind(_, _, _, _),
          bind_each(_, _, _)

\* the closure of select_spell applied to the results of select
select_spell(info, selector, spell_target) ==
    Once(select(info, selector, spell_target.target), LAMBDA result :
        [i \in 1..Len(result) |->
            [target |-> result[i].target,
             connection |-> spell_target.connection * result[i].connection]])

\* the closure of SpellSelector::bind applied to the results of left, in order
bind_each(info, right, new_targets) ==
    IF new_targets = <<>>
    THEN <<>>
    ELSE select_spell(info, right, Head(new_targets)) \o bind_each(info, right, Tail(new_targets))

\* bind that gives right the source instead of each result of left
SpellSelector_bind_at_source(info, target, left, right) ==
    LET new_targets == select_spell(info, left, SpellTarget_new(target))
    IN  bind_each(info, right,
                  [i \in 1..Len(new_targets) |->
                      [target |-> target, connection |-> new_targets[i].connection]])

RECURSIVE bind_each_first(_, _, _)
bind_each_first(info, right, new_targets) ==
    IF new_targets = <<>>
    THEN <<>>
    ELSE LET result == select_spell(info, right, Head(new_targets))
         IN  (IF result = <<>> THEN <<>> ELSE <<result[1]>>)
             \o bind_each_first(info, right, Tail(new_targets))

\* bind that takes only the first result right gives for each result of left
SpellSelector_bind_first(info, target, left, right) ==
    bind_each_first(info, right, select_spell(info, left, SpellTarget_new(target)))

SpellSelector_bind(info, target, left, right) ==
    Once(select_spell(info, left, SpellTarget_new(target)), LAMBDA new_targets :
        bind_each(info, right, new_targets))

\* the Is arm with the test > 0.0 against 1.0 exactly
select_Is_exactly_one(info, property, target) ==
    IF info_get(info, target, property) = ONE THEN <<SpellTarget_new(target)>> ELSE <<>>

\* Is(property) => if info.get(target, *property) != 0.0 { f(SpellTarget::new(target)) }
select_Is(info, property, target) ==
    IF info_get(info, target, property) # 0 THEN <<SpellTarget_new(target)>> ELSE <<>>

\* the Not arm as the complement 1.0 - value of every result (chemistry.rs not)
select_Not_complement(info, selector, target) ==
    LET result == select(info, selector, target)
    IN  [i \in 1..Len(result) |->
            [target |-> result[i].target, connection |-> 1 - result[i].connection]]

\* the Not arm
select_Not(info, selector, target) ==
    LET has_other_targets == select(info, selector, target) # <<>>
    IN  IF ~has_other_targets THEN <<SpellTarget_new(target)>> ELSE <<>>

\* Adjacent => target.for_each_adjacent(info, |a| f(SpellTarget::new(a)))
select_Adjacent(info, target) ==
    Once(for_each_adjacent(info, target), LAMBDA adjacent :
        [i \in 1..Len(adjacent) |-> SpellTarget_new(adjacent[i])])

\* SpellSelector::select: the SpellTargets handed to f, in call order
select(info, selector, target) ==
    CASE selector[1] = "Adjacent" -> select_Adjacent(info, target)
      [] selector[1] = "Is" -> select_Is(info, selector[2], target)
      [] selector[1] = "Not" -> select_Not(info, selector[2], target)
      [] selector[1] = "Bind" -> SpellSelector_bind(info, target, selector[2], selector[3])

\* info.entity_colliders.get(&entity).unwrap() of the Entity arm of
\* for_each_adjacent is called on None
for_each_adjacent_panics(info, target) ==
    ~IsBlock(target) /\ target[2] \notin DOMAIN info.entity_colliders

RECURSIVE select_panics(_, _, _)
\* SpellSelector::select aborts instead of returning
select_panics(info, selector, target) ==
    CASE selector[1] = "Adjacent" -> for_each_adjacent_panics(info, target)
      [] selector[1] = "Is" -> FALSE
      [] selector[1] = "Not" -> select_panics(info, selector[2], target)
      [] selector[1] = "Bind" ->
             \/ select_panics(info, selector[2], target)
             \/ Once(select(info, selector[2], target), LAMBDA selected :
                     \E i \in DOMAIN selected :
                         select_panics(info, selector[3], selected[i].target))

(***************************************************************************)
(* spells.rs: Spell, SpellRule and the construction of a rule.             *)
(***************************************************************************)
\* enum Spell
Effects(effects) == <<"Effects", effects>>
Select(selector, spell) == <<"Select", selector, spell>>

\* .rev() of the collected Vec
rev(items) == [i \in 1..Len(items) |-> items[(Len(items) + 1) - i]]

\* Iterator::reduce(|acc, item| Bind(Box::new(item), Box::new(acc)))
RECURSIVE reduce_from(_, _)
reduce_from(acc, items) ==
    IF items = <<>>
    THEN acc
    ELSE reduce_from(Bind(Head(items), acc), Tail(items))

reduce(items) ==
    IF items = <<>> THEN None ELSE Some(reduce_from(Head(items), Tail(items)))

\* fn bind: unwrap of the reduce over the reversed list
bind(selectors) == unwrap(reduce(rev(selectors)))

\* fn not
not(spell) == Not(spell)

\* fn basic
basic(selectors, effects) ==
    IF selectors # <<>>
    THEN Select(bind(selectors), Effects(effects))
    ELSE Effects(effects)

RECURSIVE cast(_, _, _), cast_each(_, _, _)
\* the closure of cast_select applied to the results of select_spell, in order
cast_each(info, spell, targets) ==
    IF targets = <<>>
    THEN <<>>
    ELSE cast(info, spell, Head(targets)) \o cast_each(info, spell, Tail(targets))

\* Spell::cast_select
cast_select(info, target, selector, spell) ==
    Once(select_spell(info, selector, target), LAMBDA targets :
        cast_each(info, spell, targets))

\* Spell::cast: the SpellResults handed to f, in call order
cast(info, spell, target) ==
    IF spell[1] = "Effects"
    THEN <<[target |-> target, effects |-> spell[2]]>>
    ELSE cast_select(info, target, spell[2], spell[3])

RECURSIVE cast_panics(_, _, _)
\* Spell::cast aborts instead of returning
cast_panics(info, spell, target) ==
    /\ spell[1] = "Select"
    /\ \/ select_panics(info, spell[2], target.target)
       \/ Once(select(info, spell[2], target.target), LAMBDA selected :
               \E i \in DOMAIN selected : cast_panics(info, spell[3], selected[i]))

\* Dynamic(Mana(mana_id)), as a property name
Mana(mana_id) == <<"Mana0", "Mana1", "Mana2">>[mana_id + 1]

\* enum UpdateRule: Gravity and Liquid; Spell(sr) is the SpellRule sr itself
UpdateRule_Gravity == [update |-> "Gravity"]
UpdateRule_Liquid == [update |-> "Liquid"]
IsSpell(rule) == "update" \notin DOMAIN rule

\* UpdateRule::only_run_on; "panic" for the panic! arms
only_run_on(sr) ==
    IF ~IsSpell(sr)
    THEN "Liquid"
    ELSE IF sr.drain # None
    THEN Mana(unwrap(sr.drain))
    ELSE IF sr.spell[1] = "Select"
         THEN LET selector == sr.spell[2]
              IN  CASE selector[1] = "Is" -> selector[2]
                    [] selector[1] = "Bind" ->
                           IF selector[2][1] = "Is" THEN selector[2][2] ELSE "panic"
                    [] OTHER -> "panic"
         ELSE "panic"

(***************************************************************************)
(* rules.rs: the effects of a rule, applied by spell_update.               *)
(***************************************************************************)
\* enum SpellEffect
Summon == <<"Summon">>
Add(property) == <<"Add", property>>
Remove(property) == <<"Remove", property>>
Send(property) == <<"Send", property>>
Receive(property) == <<"Receive", property>>

\* the targets the world holds something for
Known(info) ==
    {k[1] : k \in DOMAIN info.properties}
        \cup {Block(c[1], c[2]) : c \in DOMAIN info.blocks}
        \cup {Entity(e) : e \in DOMAIN info.entity_colliders}

\* WorldInfo::active_matching: the targets the property holds for (the cells
\* that still hold the material they were set up with are not enumerated)
active_matching(info, property) ==
    {target \in Known(info) : info_get(info, target, property) # 0}

\* the Entity ids given out so far, and the one commands.spawn_bundle(..).id()
\* gives out next
Entities(info, commands) ==
    DOMAIN info.entity_colliders \cup {commands[i] : i \in DOMAIN commands}

fresh_id(info, commands) ==
    IF Entities(info, commands) = {}
    THEN 1
    ELSE 1 + (CHOOSE e \in Entities(info, commands) :
                 \A other \in Entities(info, commands) : other <= e)

\* a loop over the effects in which Summon spawns the entity and the effects
\* that follow are still applied to the target of the result
apply_effect_same_target(st, effect) ==
    IF effect[1] = "Summon"
    THEN [st EXCEPT !.commands = Append(st.commands, fresh_id(st.info, st.commands))]
    ELSE IF effect[1] \in {"Add", "Send"} /\ IsDynamic(effect[2])
    THEN [st EXCEPT !.info = info_set(st.info, st.target, effect[2], ONE)]
    ELSE [st EXCEPT !.panicked = TRUE]

\* a loop over the effects in which Add and Send of a dynamic property add 1.0
\* to the scalar the target has
apply_effect_accumulating(st, effect) ==
    IF effect[1] \in {"Add", "Send"} /\ IsDynamic(effect[2])
    THEN [st EXCEPT !.info = info_set(st.info, st.target, effect[2],
                                      info_get(st.info, st.target, effect[2]) + ONE)]
    ELSE [st EXCEPT !.panicked = TRUE]

\* The state an effect list is applied to: the world, the queue of spawn
\* commands, the target of the effects that follow, and whether a todo!() or
\* an unwrap() on None has aborted the process.
\* One iteration of `for effect in result.effects`, arm by arm as matched.
apply_effect(st, effect) ==
    LET kind == effect[1]
        property == effect[2]
        target == st.target
        abort == [st EXCEPT !.panicked = TRUE]
    IN  CASE kind = "Summon" ->
                 \* spawn_summon: todo!() for a Block parent
                 IF IsBlock(target) \/ target[2] \notin DOMAIN st.info.entity_colliders
                 THEN abort
                 ELSE [st EXCEPT !.target = Entity(fresh_id(st.info, st.commands)),
                                 !.commands = Append(st.commands,
                                                     fresh_id(st.info, st.commands))]
          [] kind = "Add" /\ IsStatic(property) -> abort
          [] kind = "Remove" -> abort
          [] kind \in {"Add", "Send"} /\ IsMaterial(property) ->
                 IF IsBlock(target) /\ get_block(st.info, target[2], target[3]) # None
                 THEN [st EXCEPT !.info =
                          set_block(st.info, target[2], target[3],
                                    [unwrap(get_block(st.info, target[2], target[3]))
                                        EXCEPT !.id = property])]
                 ELSE abort
          [] kind \in {"Add", "Send"} /\ IsDynamic(property) ->
                 [st EXCEPT !.info = info_set(st.info, target, property, ONE)]
          [] kind = "Send" /\ IsStatic(property) -> abort
          [] kind = "Receive" /\ IsMaterial(property) -> abort
          [] kind = "Receive" /\ IsDynamic(property) ->
                 [st EXCEPT !.info = info_set(st.info, target, property, 0)]
          [] kind = "Receive" /\ IsStatic(property) -> abort

RECURSIVE apply_effects(_, _)
\* for effect in result.effects { .. }, until the process aborts
apply_effects(st, effects) ==
    IF effects = <<>> \/ st.panicked
    THEN st
    ELSE apply_effects(apply_effect(st, Head(effects)), Tail(effects))

\* f32::INFINITY; rates and draws are counted in hundredths
INFINITY == 1000000

\* a spell_update that leaves the mana of the source as it is
drain_mana_kept(info, spell_rule, source) == info

\* if let Some(mana_id) = spell_rule.drain { .. }
drain_mana(info, spell_rule, source) ==
    IF spell_rule.drain = None
    THEN info
    ELSE LET mana == info_get(info, source, Mana(unwrap(spell_rule.drain)))
         IN  info_set(info, source, Mana(unwrap(spell_rule.drain)),
                      IF mana - DRAIN > 0 THEN mana - DRAIN ELSE 0)

(***************************************************************************)
(* rules.rs: gravity_update, liquid_update and mark_unstable.              *)
(* Densities, stabilities and draws of rand::random are counted in         *)
(* hundredths.                                                             *)
(***************************************************************************)
\* ALL_BLOCK_DATA: density, physics and powder_stability of a material
ALL_BLOCK_DATA(id) ==
    CASE id = "Air" -> [density |-> 10, physics |-> "None", powder_stability |-> 0]
      [] id = "Stone" -> [density |-> 100, physics |-> "Solid", powder_stability |-> 0]
      [] id = "Water" -> [density |-> 50, physics |-> "Liquid", powder_stability |-> 0]
      [] id = "Sand" -> [density |-> 80, physics |-> "Powder", powder_stability |-> 30]
      [] id = "Wood" -> [density |-> 100, physics |-> "Solid", powder_stability |-> 0]
      [] id = "Coal" -> [density |-> 100, physics |-> "Powder", powder_stability |-> 70]
      [] id = "Fire" -> [density |-> 10, physics |-> "None", powder_stability |-> 0]
      [] id = "Smoke" -> [density |-> 5, physics |-> "Liquid", powder_stability |-> 0]
      [] id = "Steam" -> [density |-> 5, physics |-> "Liquid", powder_stability |-> 0]

\* Block::data
data(block) == ALL_BLOCK_DATA(block.id)

\* WorldInfo::swap_properties: the two targets exchange what is stored for
\* their Dynamic properties
swap_properties(info, a, b) ==
    LET other(target) == IF target = a THEN b ELSE IF target = b THEN a ELSE target
        keys == {<<other(k[1]), k[2]>> : k \in DOMAIN info.properties}
    IN  [info EXCEPT !.properties =
            [k \in keys |-> info.properties[<<other(k[1]), k[2]>>]]]

\* WorldInfo::reset_changes, called by step under the span "Reset flags": no
\* block has moved in the step that begins
reset_changes(info) ==
    [info EXCEPT !.blocks =
        [c \in DOMAIN info.blocks |-> [info.blocks[c] EXCEPT !.MOVED_THIS_STEP = FALSE]]]

\* neighbors(x, y, xs, ys): the cells of the grid at the offsets, x offsets
\* in the outer loop
neighbors(x, y, xs, ys) ==
    LET count == Len(xs) * Len(ys)
        cells == [i \in 1..count |->
                     <<x + xs[((i - 1) \div Len(ys)) + 1], y + ys[((i - 1) % Len(ys)) + 1]>>]
    IN  SelectSeq(cells, LAMBDA c : in_grid(c[1], c[2]))

RECURSIVE mark_each(_, _, _)
\* the loop of mark_unstable over the cells around (x, y)
mark_each(info, cells, id) ==
    IF cells = <<>>
    THEN info
    ELSE LET x3 == Head(cells)[1]
             y3 == Head(cells)[2]
             block3 == get_block(info, x3, y3)
         IN  IF block3 # None
                /\ data(unwrap(block3)).physics = "Liquid"
                /\ unwrap(block3).id = id
             THEN mark_each(set_block(info, x3, y3,
                                      [unwrap(block3) EXCEPT !.POWDER_STABLE = FALSE]),
                            Tail(cells), id)
             ELSE mark_each(info, Tail(cells), id)

\* mark_unstable(info, x, y, id)
mark_unstable(info, x, y, id) ==
    mark_each(info, neighbors(x, y, <<-1, 0, 1>>, <<-1, 0, 1>>), id)

\* the swap both updates end an iteration with: the flags, the two set_block,
\* swap_properties and mark_unstable
swap_blocks(info, x, y, block, x2, y2, block2) ==
    LET moved == [block EXCEPT !.MOVED_THIS_STEP = TRUE]
        moved2 == IF data(block2).physics # "None"
                  THEN [block2 EXCEPT !.MOVED_THIS_STEP = TRUE]
                  ELSE block2
    IN  mark_unstable(swap_properties(set_block(set_block(info, x, y, moved2), x2, y2, moved),
                                      Block(x, y), Block(x2, y2)),
                      x, y, block.id)

\* the todo!() for a target that is no Block and the unwrap of get_block
update_panics(info, target) ==
    ~IsBlock(target) \/ get_block(info, target[2], target[3]) = None

RECURSIVE gravity_fall(_, _, _, _, _, _)
\* for i in 0..5 { .. } of gravity_update, from iteration i on; draws[i + 1] is
\* the draw of rand::random in iteration i
gravity_fall(info, x, y, block, i, draws) ==
    LET down == IF data(block).density >= 0 THEN -1 ELSE 1
        y2 == y + down
        block2 == get_block(info, x, y2)
        fall_desire == down * (data(unwrap(block2)).density - data(block).density)
    IN  IF i >= 5 \/ block2 = None
        THEN info
        ELSE IF fall_desire <= 0 \/ 100 * i + draws[i + 1] > 2 * fall_desire
        THEN info
        ELSE gravity_fall(swap_blocks(info, x, y, block, x, y2, unwrap(block2)),
                          x, y2, [block EXCEPT !.MOVED_THIS_STEP = TRUE], i + 1, draws)

\* a gravity_update that writes the falling block to the cell below and leaves
\* the cell it fell from as it was
gravity_update_copy(info, target, draws) ==
    LET x == target[2]
        y == target[3]
        block == unwrap(get_block(info, x, y))
        block2 == get_block(info, x, y - 1)
        fall_desire == data(block).density - data(unwrap(block2)).density
    IN  IF block.MOVED_THIS_STEP \/ data(block).physics # "Liquid" \/ block2 = None
        THEN info
        ELSE IF fall_desire <= 0 \/ draws[1] > 2 * fall_desire
        THEN info
        ELSE set_block(info, x, y - 1, [block EXCEPT !.MOVED_THIS_STEP = TRUE])

\* gravity_update(info, target) for a target in the grid
gravity_update(info, target, draws) ==
    LET x == target[2]
        y == target[3]
        block == unwrap(get_block(info, x, y))
    IN  IF block.MOVED_THIS_STEP \/ data(block).physics # "Liquid"
        THEN info
        ELSE gravity_fall(info, x, y, block, 0, draws)

RECURSIVE liquid_flow(_, _, _, _, _, _, _)
\* for (x2, y2) in to_check { .. } of liquid_update, from the i-th cell on;
\* draws[i] is the draw of rand::random for that cell
liquid_flow(info, x, y, block, to_check, i, draws) ==
    IF i > Len(to_check)
    THEN info
    ELSE LET x2 == to_check[i][1]
             y2 == to_check[i][2]
             block2 == get_block(info, x2, y2)
             density_advantage == data(block).density - data(unwrap(block2)).density
             abs == IF density_advantage < 0 THEN -density_advantage ELSE density_advantage
         IN  IF block2 = None
             THEN liquid_flow(info, x, y, block, to_check, i + 1, draws)
             ELSE IF \/ unwrap(block2).MOVED_THIS_STEP
                     \/ (density_advantage <= 0 /\ data(unwrap(block2)).physics # "None")
                     \/ abs <= draws[i]
             THEN liquid_flow(info, x, y, block, to_check, i + 1, draws)
             ELSE swap_blocks(info, x, y, block, x2, y2, unwrap(block2))

\* a liquid_update without the return for a block that is POWDER_STABLE
liquid_update_unsettled(info, target, settle, to_check, draws) ==
    LET x == target[2]
        y == target[3]
        block == unwrap(get_block(info, x, y))
    IN  IF data(block).physics # "Liquid"
        THEN info
        ELSE liquid_flow(info, x, y, block, to_check, 1, draws)

\* liquid_update(info, target) for a target in the grid; settle is the draw
\* compared with powder_stability, to_check what neighbors_shuffle returns
liquid_update(info, target, settle, to_check, draws) ==
    LET x == target[2]
        y == target[3]
        block == unwrap(get_block(info, x, y))
        settled == settle < data(block).powder_stability
        stable == IF settled THEN [block EXCEPT !.POWDER_STABLE = TRUE] ELSE block
        info_stable == IF settled THEN set_block(info, x, y, stable) ELSE info
    IN  IF data(block).physics # "Liquid"
        THEN info
        ELSE IF stable.POWDER_STABLE
        THEN info_stable
        ELSE liquid_flow(info_stable, x, y, stable, to_check, 1, draws)

(***************************************************************************)
(* StorageManager: the state of the program.                               *)
(***************************************************************************)
VARIABLES
    selectors,         \* HashMap<SpellSelector, Mutex<ReactiveStorage>>: selector -> its TrackingDigraph
    material,          \* TrackingDigraph<Object, u16>
    block_properties,  \* HashMap<BlockProperties, Mutex<TrackingDigraph<Object, bool>>>
    held,              \* the selectors whose Mutex is locked
    pc,                \* where the program is: "idle" (between calls), "recompute" and "clear"
                       \* (the two loops of recompute_all_caches), "for_each_entry", "blocked"
    toposort,          \* the Vec collected from the TopologicalSort
    idx,               \* index into toposort of the running loop
    fold,              \* how many of the three loops of the running recompute_cache are done
    panicked,          \* the process has aborted (unwrap on None, todo!(), lock)
    reading,           \* the selector given to the running or aborted for_each_entry, or "none"
    delivered,         \* the entries for_each_entry has handed to its callback f
    updates,           \* number of TrackingDigraph::update calls made by callers
    ticks,             \* number of recompute_all_caches calls that returned
    early,             \* history: the Bind selectors inserted before the first update call
    mutated,           \* history: update was called on a base relation since
                       \* recompute_all_caches last returned
    info,              \* WorldInfo: properties (target, property) -> f32, entity_colliders,
                       \* blocks (x, y) -> material id
    call,              \* the running call on the world: select or step, or none
    results,           \* the Vec of results the running call has collected
    applied,           \* history: the result the running step has gone through last
                       \* (an Option), with its rule, draw and whether its effects
                       \* were applied
    commands,          \* Commands: the entities queued to be spawned
    steps,             \* number of calls of step
    flip_sim_dir,      \* BlockGrid: the x scan of the next step runs downwards
    grid               \* BlockGrid: (x, y) -> Block, for the cells that hold another
                       \* block than the default one

vars == <<selectors, material, block_properties, held, pc, toposort, idx, fold,
          panicked, reading, delivered, updates, ticks, early, mutated,
          touching, info, call, results, applied, commands, steps, flip_sim_dir, grid>>

\* the state of the world and of the calls on it
spell_vars == <<touching, info, call, results, applied, commands, steps, flip_sim_dir,
                grid>>

\* the state of the world and of the calls on it, the BlockGrid's cells apart
spell_vars_but_grid ==
    <<touching, info, call, results, applied, commands, steps, flip_sim_dir>>

\* the state of the StorageManager, `panicked` apart
storage_vars == <<selectors, material, block_properties, held, pc, toposort, idx, fold,
                  reading, delivered, updates, ticks, early, mutated>>

\* WorldInfo::default
EmptyWorld ==
    [properties |-> [k \in {} |-> 0],
     entity_colliders |-> [e \in {} |-> 0],
     blocks |-> [c \in {} |-> 0]]

NoCall == [op |-> "none"]

Registered == DOMAIN selectors

\* StorageManager::new
StorageManager_new ==
    /\ selectors = [s \in {} |-> EmptyTracking]
    /\ material = EmptyTracking
    /\ block_properties = [prop \in BlockProperties |-> EmptyTracking]
    /\ held = {}
    /\ pc = "idle"
    /\ toposort = <<>>
    /\ idx = 0
    /\ fold = 0
    /\ panicked = FALSE
    /\ reading = "none"
    /\ delivered = <<>>
    /\ updates = 0
    /\ ticks = 0
    /\ early = {}
    /\ mutated = FALSE

\* WorldInfo::default, and no call is running
WorldInfo_default ==
    /\ info = EmptyWorld
    /\ call = NoCall
    /\ results = <<>>
    /\ applied = None
    /\ commands = <<>>
    /\ steps = 0

\* BlockGrid::default: every cell holds Block::default()
BlockGrid_default ==
    /\ flip_sim_dir = FALSE
    /\ grid = [c \in {} |-> 0]

Init ==
    /\ StorageManager_new
    /\ WorldInfo_default
    /\ BlockGrid_default
    /\ touching = FALSE

\* the caller is between two calls on the StorageManager
Idle == pc = "idle" /\ ~panicked

\* get that answers with an empty storage for a selector that is not registered
manager_get_or_default(map, selector) ==
    IF selector \in DOMAIN map THEN Some(map[selector]) ELSE Some(EmptyTracking)

\* StorageManager::get before its unwrap: self.selectors.get(selector)
manager_get(map, selector) ==
    IF selector \in DOMAIN map THEN Some(map[selector]) ELSE None

(***************************************************************************)
(* StorageManager::require.  `manager` is the HashMap together with the    *)
(* sequence of the insert calls made so far by the running require call.   *)
(***************************************************************************)
RECURSIVE require(_, _), require_parents(_, _)
\* require without the Some(_) => {} arm: a registered selector is inserted again
require_overwrite(manager, selector) ==
    LET m == require_parents(manager, parents(selector))
    IN  [selectors |-> [s \in DOMAIN m.selectors \cup {selector} |->
                           IF s = selector THEN EmptyTracking ELSE m.selectors[s]],
         inserted |-> Append(m.inserted, selector)]

\* require without the loop over new_storage.parents()
require_no_parents(manager, selector) ==
    IF selector \in DOMAIN manager.selectors
    THEN manager
    ELSE [selectors |-> [s \in DOMAIN manager.selectors \cup {selector} |->
                            IF s = selector THEN EmptyTracking ELSE manager.selectors[s]],
          inserted |-> Append(manager.inserted, selector)]

require(manager, selector) ==
    IF manager_get(manager.selectors, selector) # None
    THEN manager
    ELSE LET m == require_parents(manager, parents(selector))
         IN  [selectors |-> [s \in DOMAIN m.selectors \cup {selector} |->
                                IF s = selector THEN EmptyTracking ELSE m.selectors[s]],
              inserted |-> Append(m.inserted, selector)]

require_parents(manager, ps) ==
    IF ps = <<>>
    THEN manager
    ELSE require_parents(require(manager, Head(ps)), Tail(ps))

Require(selector) ==
    /\ Idle
    /\ selectors' = require([selectors |-> selectors, inserted |-> <<>>], selector).selectors
    /\ early' = IF updates = 0
                THEN early \cup {s \in DOMAIN selectors' \ DOMAIN selectors : IsBind(s)}
                ELSE early
    /\ UNCHANGED <<material, block_properties, held, pc, toposort, idx, fold,
                   panicked, reading, delivered, updates, ticks, mutated>>
    /\ UNCHANGED spell_vars

(***************************************************************************)
(* A caller mutates a base relation: TrackingDigraph::update with the      *)
(* closure |_| weight on the storage of a registered Is or Adjacent, on    *)
(* `material`, or on the relation get_prop returns.                        *)
(***************************************************************************)
UpdateSelector(limit, selector, source, target, weight) ==
    /\ Idle
    /\ updates < limit
    /\ selector \in Registered
    /\ selectors' = [selectors EXCEPT ![selector] =
                        update(@, source, target, [x \in Int |-> weight])]
    /\ updates' = updates + 1
    /\ mutated' = TRUE
    /\ UNCHANGED <<material, block_properties, held, pc, toposort, idx, fold,
                   panicked, reading, delivered, ticks, early>>
    /\ UNCHANGED spell_vars

UpdateMaterial(limit, source, target, id) ==
    /\ Idle
    /\ updates < limit
    /\ material' = update(material, source, target, [x \in Int |-> id])
    /\ updates' = updates + 1
    /\ mutated' = TRUE
    /\ UNCHANGED <<selectors, block_properties, held, pc, toposort, idx, fold,
                   panicked, reading, delivered, ticks, early>>
    /\ UNCHANGED spell_vars

UpdateProperty(limit, property, source, target, value) ==
    /\ Idle
    /\ updates < limit
    /\ block_properties' = [block_properties EXCEPT ![property] =
                               update(@, source, target, [x \in Int |-> value])]
    /\ updates' = updates + 1
    /\ mutated' = TRUE
    /\ UNCHANGED <<selectors, material, held, pc, toposort, idx, fold,
                   panicked, reading, delivered, ticks, early>>
    /\ UNCHANGED spell_vars

(***************************************************************************)
(* StorageManager::for_each_entry                                          *)
(***************************************************************************)
for_each_entry(selector) ==
    /\ Idle
    /\ reading' = selector
    /\ LET reactive_storage == manager_get(selectors, selector)
       IN  IF reactive_storage = None
           THEN \* unwrap on None
                /\ panicked' = TRUE
                /\ UNCHANGED <<pc, delivered>>
           ELSE /\ delivered' = entries(unwrap(reactive_storage).current)
                /\ pc' = "for_each_entry"
                /\ UNCHANGED panicked
    /\ UNCHANGED <<selectors, material, block_properties, held, toposort, idx, fold,
                   updates, ticks, early, mutated>>
    /\ UNCHANGED spell_vars

for_each_entry_return ==
    /\ pc = "for_each_entry" /\ ~panicked
    /\ pc' = "idle"
    /\ reading' = "none"
    /\ delivered' = <<>>
    /\ UNCHANGED <<selectors, material, block_properties, held, toposort, idx, fold,
                   panicked, updates, ticks, early, mutated>>
    /\ UNCHANGED spell_vars

(***************************************************************************)
(* StorageManager::recompute_all_caches                                    *)
(***************************************************************************)
\* an order of the elements that ignores the dependencies
RECURSIVE ArbitraryOrders(_, _)
ArbitraryOrders(done, remaining) ==
    IF remaining = {}
    THEN {done}
    ELSE UNION { ArbitraryOrders(Append(done, s), remaining \ {s}) : s \in remaining }

\* TopologicalSort yields the inserted selectors, each once, a selector only
\* after the selectors it depends on; among the ready ones the order is that
\* of a HashMap, so any.
RECURSIVE TopologicalOrders(_, _)
TopologicalOrders(done, remaining) ==
    IF remaining = {}
    THEN {done}
    ELSE UNION { TopologicalOrders(Append(done, s), remaining \ {s}) :
                 s \in { r \in remaining :
                           \A i \in DOMAIN parents(r) : parents(r)[i] \notin remaining } }

\* toposort.insert(selector) for every key, add_dependency(parent, selector)
\* for every parent: the parents are elements of the sort too
toposort_elements(map) ==
    DOMAIN map \cup UNION { {parents(s)[i] : i \in DOMAIN parents(s)} : s \in DOMAIN map }

recompute_all_caches_begin ==
    /\ Idle
    /\ ticks < MaxTicks
    /\ toposort' \in TopologicalOrders(<<>>, toposort_elements(selectors))
    /\ pc' = "recompute"
    /\ idx' = 1
    /\ fold' = 0
    /\ UNCHANGED <<selectors, material, block_properties, held, panicked, reading,
                   delivered, updates, ticks, early, mutated>>
    /\ UNCHANGED spell_vars

InRecompute == pc = "recompute" /\ ~panicked /\ idx <= Len(toposort)

\* self.get(selector).recompute_cache(self): Is(_) => {}, Adjacent => {}
recompute_cache_leaf ==
    /\ InRecompute
    /\ toposort[idx] \in {"Is", "Adjacent"}
    /\ IF manager_get(selectors, toposort[idx]) = None
       THEN panicked' = TRUE /\ UNCHANGED idx
       ELSE idx' = idx + 1 /\ UNCHANGED panicked
    /\ UNCHANGED <<selectors, material, block_properties, held, pc, toposort, fold,
                   reading, delivered, updates, ticks, early, mutated>>
    /\ UNCHANGED spell_vars

\* self.get(selector).recompute_cache(self): _ => todo!()
recompute_cache_todo ==
    /\ InRecompute
    /\ ~IsBind(toposort[idx])
    /\ toposort[idx] \notin {"Is", "Adjacent"}
    /\ panicked' = TRUE
    /\ UNCHANGED <<selectors, material, block_properties, held, pc, toposort, idx, fold,
                   reading, delivered, updates, ticks, early, mutated>>
    /\ UNCHANGED spell_vars

\* self.get(selector), storage_manager.get(&left), storage_manager.get(&right):
\* the three guards are taken in this order and live to the end of the call
recompute_cache_lock ==
    /\ InRecompute
    /\ IsBind(toposort[idx])
    /\ held = {}
    /\ LET selector == toposort[idx]
           left == Left(selector)
           right == Right(selector)
       IN  /\ left # selector /\ right # selector /\ right # left
           /\ IF \E s \in {selector, left, right} : manager_get(selectors, s) = None
              THEN panicked' = TRUE /\ UNCHANGED held
              ELSE held' = {selector, left, right} /\ UNCHANGED panicked
    /\ UNCHANGED <<selectors, material, block_properties, pc, toposort, idx, fold,
                   reading, delivered, updates, ticks, early, mutated>>
    /\ UNCHANGED spell_vars

\* the same, when one of the three Mutexes is asked for twice: lock() on a Mutex
\* this thread holds does not return, it panics or blocks for ever
recompute_cache_relock ==
    /\ InRecompute
    /\ IsBind(toposort[idx])
    /\ held = {}
    /\ LET selector == toposort[idx]
           left == Left(selector)
           right == Right(selector)
       IN  /\ left = selector \/ right = selector \/ right = left
           /\ {selector, left, right} \subseteq Registered
           /\ held' = {selector, left}
    /\ \/ panicked' = TRUE /\ pc' = pc
       \/ panicked' = panicked /\ pc' = "blocked"
    /\ UNCHANGED <<selectors, material, block_properties, toposort, idx, fold,
                   reading, delivered, updates, ticks, early, mutated>>
    /\ UNCHANGED spell_vars

\* one of the three loops of recompute_cache; the guards are dropped after the third
recompute_cache_fold ==
    /\ InRecompute
    /\ IsBind(toposort[idx])
    /\ held # {}
    /\ LET selector == toposort[idx]
           left == selectors[Left(selector)]
           right == selectors[Right(selector)]
       IN  selectors' = [selectors EXCEPT ![selector] =
                CASE fold = 0 -> fold_first(@, left, right)
                  [] fold = 1 -> fold_second(@, left, right)
                  [] fold = 2 -> fold_third(@, left, right)]
    /\ IF fold = 2
       THEN fold' = 0 /\ held' = {} /\ idx' = idx + 1
       ELSE fold' = fold + 1 /\ UNCHANGED <<held, idx>>
    /\ UNCHANGED <<material, block_properties, pc, toposort, panicked, reading,
                   delivered, updates, ticks, early, mutated>>
    /\ UNCHANGED spell_vars

\* the first loop over toposort is over
recompute_done ==
    /\ pc = "recompute" /\ ~panicked
    /\ idx > Len(toposort)
    /\ pc' = "clear"
    /\ idx' = 1
    /\ UNCHANGED <<selectors, material, block_properties, held, toposort, fold,
                   panicked, reading, delivered, updates, ticks, early, mutated>>
    /\ UNCHANGED spell_vars

\* self.get(selector).storage.clear_previous()
clear_previous_step ==
    /\ pc = "clear" /\ ~panicked
    /\ idx <= Len(toposort)
    /\ IF manager_get(selectors, toposort[idx]) = None
       THEN panicked' = TRUE /\ UNCHANGED <<selectors, idx>>
       ELSE /\ selectors' = [selectors EXCEPT ![toposort[idx]] = clear_previous(@)]
            /\ idx' = idx + 1
            /\ UNCHANGED panicked
    /\ UNCHANGED <<material, block_properties, held, pc, toposort, fold, reading,
                   delivered, updates, ticks, early, mutated>>
    /\ UNCHANGED spell_vars

\* recompute_all_caches returns
recompute_all_caches_return ==
    /\ pc = "clear" /\ ~panicked
    /\ idx > Len(toposort)
    /\ pc' = "idle"
    /\ idx' = 0
    /\ toposort' = <<>>
    /\ ticks' = ticks + 1
    /\ mutated' = FALSE
    /\ UNCHANGED <<selectors, material, block_properties, held, fold, panicked,
                   reading, delivered, updates, early>>
    /\ UNCHANGED spell_vars

recompute_all_caches ==
    \/ recompute_all_caches_begin
    \/ recompute_cache_leaf
    \/ recompute_cache_lock
    \/ recompute_cache_fold
    \/ recompute_done
    \/ clear_previous_step
    \/ recompute_all_caches_return

(***************************************************************************)
(* Spec: the selectors whose recompute runs to its end (Is, Adjacent and   *)
(* the Binds over them), their mutations and the ticks.                    *)
(***************************************************************************)
Next ==
    \/ \E selector \in BindSelectors : Require(selector)
    \/ \E selector \in {"Is", "Adjacent"}, source \in Object, target \in Object,
          weight \in BaseWeight : UpdateSelector(MaxUpdates, selector, source, target, weight)
    \/ recompute_all_caches

Spec == Init /\ [][Next]_vars

(***************************************************************************)
(* SpecAll: every selector, the material and property relations and the    *)
(* reads, with fewer mutations.                                            *)
(***************************************************************************)
NextAll ==
    \/ \E selector \in SpellSelector : Require(selector)
    \/ \E selector \in {"Is", "Adjacent"}, source \in Object, target \in Object,
          weight \in BaseWeight : UpdateSelector(MaxUpdatesAll, selector, source, target, weight)
    \/ \E source \in Object, target \in Object, id \in MaterialId :
          UpdateMaterial(MaxUpdatesAll, source, target, id)
    \/ \E property \in BlockProperties, source \in Object, target \in Object,
          value \in Bool01 : UpdateProperty(MaxUpdatesAll, property, source, target, value)
    \/ \E selector \in SpellSelector : for_each_entry(selector)
    \/ for_each_entry_return
    \/ recompute_all_caches
    \/ recompute_cache_todo
    \/ recompute_cache_relock

SpecAll == Init /\ [][NextAll]_vars

(***************************************************************************)
(* The world and the calls that evaluate selectors and rules against it.   *)
(***************************************************************************)
\* the entities, and the positions (in halves of a cell) the transform of an
\* entity is at when its collider is inserted: (-7.5, -7.5) and (-8.0, -8.0),
\* colliders that reach into the corner of the grid
EntityId == {1, 2}
Position == {<<-15, -15>>, <<-16, -16>>}

\* the (target, property) pairs that are set, and the values they are set to
PropertyKey == {<<Block(0, 0), "Burning">>, <<Entity(1), "Burning">>}
PropertyValue == {0, 5, ONE}

\* the targets select is called with
SelectTarget == {Block(0, 0), Block(1, 1), Block(127, 127), Entity(1), Entity(2)}

\* the selectors select is called with: the constructors, their Binds and
\* the Binds of those
Atom == {Adjacent, Is("Burning"), Not(Is("Burning"))}
SelectorSample ==
    Atom \cup {Not(Adjacent), Not(Bind(Adjacent, Is("Burning")))}
         \cup {Bind(a, b) : a \in Atom, b \in Atom}
         \cup {Bind(Bind(a, b), c) : a \in Atom, b \in Atom, c \in Atom}

\* no call on the world is running
WorldIdle == call.op = "none" /\ ~panicked

\* WorldInfo::set, called between two calls
world_set(target, property, value) ==
    /\ WorldIdle
    /\ info' = info_set(info, target, property, value)
    /\ UNCHANGED <<touching, call, results, applied, commands, steps, panicked>>
    /\ UNCHANGED storage_vars
    /\ UNCHANGED <<flip_sim_dir, grid>>

\* info.entity_colliders.insert(entity, AABBCollider { .. })
insert_collider(entity, pos) ==
    /\ WorldIdle
    /\ info' = [info EXCEPT !.entity_colliders =
                   [e \in DOMAIN info.entity_colliders \cup {entity} |->
                       IF e = entity THEN collider_at(pos) ELSE info.entity_colliders[e]]]
    /\ UNCHANGED <<touching, call, results, applied, commands, steps, panicked>>
    /\ UNCHANGED storage_vars
    /\ UNCHANGED <<flip_sim_dir, grid>>

\* selector.select(info, target, f) with an f that collects
select_call(selector, target) ==
    /\ WorldIdle
    /\ IF select_panics(info, selector, target)
       THEN /\ panicked' = TRUE
            /\ UNCHANGED <<call, results>>
       ELSE /\ call' = [op |-> "select", selector |-> selector, target |-> target]
            /\ results' = select(info, selector, target)
            /\ UNCHANGED panicked
    /\ UNCHANGED <<touching, info, applied, commands, steps>>
    /\ UNCHANGED storage_vars
    /\ UNCHANGED <<flip_sim_dir, grid>>

select_return ==
    /\ call.op = "select"
    /\ call' = NoCall
    /\ results' = <<>>
    /\ UNCHANGED <<touching, info, applied, commands, steps, panicked>>
    /\ UNCHANGED storage_vars
    /\ UNCHANGED <<flip_sim_dir, grid>>

NextSelect ==
    \/ \E key \in PropertyKey, value \in PropertyValue : world_set(key[1], key[2], value)
    \/ \E entity \in EntityId, pos \in Position : insert_collider(entity, pos)
    \/ \E selector \in SelectorSample, target \in SelectTarget : select_call(selector, target)
    \/ select_return

InitWorld ==
    /\ StorageManager_new
    /\ WorldInfo_default
    /\ BlockGrid_default
    /\ touching \in BOOLEAN

SpecSelect == InitWorld /\ [][NextSelect]_vars

(***************************************************************************)
(* rules.rs: step, and spell_update for every target of every rule.        *)
(*                                                                         *)
(* call.pc is where step is: "rule" at the head of the loop over the       *)
(* rules, "update" at the head of the loop over target_list, "results" at  *)
(* the head of the loop of spell_update over its results.                  *)
(* info.reset_changes() and the changed flags feed the texture update      *)
(* only and are not part of the state.                                     *)
(***************************************************************************)
\* the rates of the rules and the draws of rand::random::<f32>(), a value in
\* [0, 1), in hundredths
Rate == {0, 50, INFINITY}
Draw == {0, 50, 99}

\* the selector lists and the effect lists the rules are built from
SelectorList ==
    {<<>>,
     <<Adjacent>>,
     <<Is("Burning")>>,
     <<Is("Burning"), Adjacent>>,
     <<Is("Burning"), Adjacent, Not(Is("Burning"))>>}

EffectList ==
    {<<Send("Burning")>>, <<Receive("Burning")>>, <<Remove("Burning")>>,
     <<Summon, Add("Forwards")>>,
     <<Send("Burning"), Summon, Add("Forwards")>>}

\* struct SpellRule, the spell built by basic
SpellRule(rate, drain, selector_list, effects) ==
    [rate |-> rate, drain |-> drain, selectors |-> selector_list,
     spell |-> basic(selector_list, effects)]

\* the rules that are stepped: every selector list at every rate, the lists
\* that do not start with Is(_) with a drain, and every effect list
RuleSample ==
    {SpellRule(rate, None, selector_list, <<Send("Burning")>>) :
        rate \in Rate, selector_list \in SelectorList}
      \cup {SpellRule(rate, Some(0), selector_list, <<Send("Burning")>>) :
               rate \in {0, INFINITY}, selector_list \in {<<>>, <<Adjacent>>}}
      \cup {SpellRule(INFINITY, drain, selector_list, effects) :
               drain \in {None, Some(0)}, selector_list \in {<<>>, <<Is("Burning")>>},
               effects \in EffectList}

\* the rules that are stepped one after the other: a rule that lights what is
\* adjacent to a burning target, one that lights and one that puts out the
\* burning target itself
PairSample ==
    {<<SpellRule(INFINITY, None, <<Is("Burning"), Adjacent>>, <<Send("Burning")>>), second>> :
        second \in {SpellRule(INFINITY, None, <<Is("Burning")>>, <<Send("Burning")>>),
                    SpellRule(INFINITY, None, <<Is("Burning")>>, <<Receive("Burning")>>)}}

\* struct UpdateRules: the lists of rules step is called with
UpdateRules ==
    {<<sr>> : sr \in RuleSample} \cup PairSample

\* the (target, property) pairs that are set between two steps
RulePropertyKey ==
    {<<Block(0, 0), "Burning">>, <<Entity(1), "Burning">>, <<Entity(1), "Mana0">>}

\* how many entities the Summon effects of a behaviour spawn, and how many
\* calls of step it makes
MaxSpawned == 1
MaxSteps == 1

\* the orders an iterator over a set of targets may yield them in
Orders(targets) ==
    {order \in [1..Cardinality(targets) -> targets] :
        \A i, j \in DOMAIN order : order[i] = order[j] => i = j}

Stepping(at) == call.op = "step" /\ call.pc = at /\ ~panicked

\* the rule of the running iteration of the loop over the rules
CurrentRule == call.update_rules[call.rule]

\* step(commands, info, update_rules), called at most limit times
step_within(update_rules, limit) ==
    /\ WorldIdle
    /\ steps < limit
    /\ steps' = steps + 1
    /\ info' = reset_changes(info)
    /\ call' = [op |-> "step", pc |-> "rule", update_rules |-> update_rules, rule |-> 1,
                target_list |-> <<>>]
    /\ results' = <<>>
    /\ UNCHANGED <<touching, applied, commands, panicked>>
    /\ UNCHANGED storage_vars
    /\ UNCHANGED <<flip_sim_dir, grid>>

step(update_rules) == step_within(update_rules, MaxSteps)

\* let target_list = info.active_matching(rule.only_run_on()).collect::<Vec<_>>();
step_rule ==
    /\ Stepping("rule")
    /\ call.rule <= Len(call.update_rules)
    /\ IF only_run_on(CurrentRule) = "panic"
       THEN /\ panicked' = TRUE
            /\ UNCHANGED call
       ELSE /\ \E target_list \in Orders(active_matching(info, only_run_on(CurrentRule))) :
                  call' = [call EXCEPT !.pc = "update", !.target_list = target_list]
            /\ UNCHANGED panicked
    /\ UNCHANGED <<touching, info, results, applied, commands, steps>>
    /\ UNCHANGED storage_vars
    /\ UNCHANGED <<flip_sim_dir, grid>>

\* the loop over the rules is over
step_return ==
    /\ Stepping("rule")
    /\ call.rule > Len(call.update_rules)
    /\ call' = NoCall
    /\ applied' = None
    /\ UNCHANGED <<touching, info, results, commands, steps, panicked>>
    /\ UNCHANGED storage_vars
    /\ UNCHANGED <<flip_sim_dir, grid>>

\* a loop over the rules that leaves a rule before its target_list is used up
step_next_rule_early ==
    /\ Stepping("update")
    /\ call' = [call EXCEPT !.pc = "rule", !.rule = @ + 1]
    /\ UNCHANGED <<touching, info, results, applied, commands, steps, panicked>>
    /\ UNCHANGED storage_vars
    /\ UNCHANGED <<flip_sim_dir, grid>>

\* the loop over target_list is over: the next rule
step_next_rule ==
    /\ Stepping("update")
    /\ call.target_list = <<>>
    /\ call' = [call EXCEPT !.pc = "rule", !.rule = @ + 1]
    /\ UNCHANGED <<touching, info, results, applied, commands, steps, panicked>>
    /\ UNCHANGED storage_vars
    /\ UNCHANGED <<flip_sim_dir, grid>>

\* spell_update, up to its loop: the results of the cast are collected
spell_update ==
    /\ Stepping("update")
    /\ call.target_list # <<>>
    /\ IsSpell(CurrentRule)
    /\ IF cast_panics(info, CurrentRule.spell, SpellTarget_new(Head(call.target_list)))
       THEN /\ panicked' = TRUE
            /\ UNCHANGED <<call, results>>
       ELSE /\ results' = cast(info, CurrentRule.spell,
                               SpellTarget_new(Head(call.target_list)))
            /\ call' = [call EXCEPT !.pc = "results"]
            /\ UNCHANGED panicked
    /\ UNCHANGED <<touching, info, applied, commands, steps>>
    /\ UNCHANGED storage_vars
    /\ UNCHANGED <<flip_sim_dir, grid>>

\* one iteration of `for result in results` with the draw of rand::random
spell_update_result(draw) ==
    /\ Stepping("results")
    /\ results # <<>>
    /\ LET result == Head(results)
           skip == draw > CurrentRule.rate
           st == apply_effects([info |-> info, commands |-> commands,
                                target |-> result.target.target, panicked |-> FALSE],
                               result.effects)
       IN  /\ skip \/ Len(st.commands) <= MaxSpawned
           /\ info' = IF skip THEN info ELSE st.info
           /\ commands' = IF skip THEN commands ELSE st.commands
           /\ panicked' = IF skip THEN FALSE ELSE st.panicked
           /\ applied' = Some([rule |-> call.rule,
                                 source |-> Head(call.target_list),
                                 target |-> result.target,
                                 effects |-> result.effects,
                                 draw |-> draw,
                                 fired |-> ~skip])
    /\ results' = Tail(results)
    /\ UNCHANGED <<touching, call, steps>>
    /\ UNCHANGED storage_vars
    /\ UNCHANGED <<flip_sim_dir, grid>>

\* spell_update after its loop: the mana drain, and the return to step
spell_update_return ==
    /\ Stepping("results")
    /\ results = <<>>
    /\ info' = drain_mana(info, CurrentRule, Head(call.target_list))
    /\ call' = [call EXCEPT !.pc = "update", !.target_list = Tail(@)]
    /\ UNCHANGED <<touching, results, applied, commands, steps, panicked>>
    /\ UNCHANGED storage_vars
    /\ UNCHANGED <<flip_sim_dir, grid>>

\* UpdateRule::Gravity => gravity_update(info, target), with the draws of
\* rand::random of the five iterations
update_Gravity ==
    /\ Stepping("update")
    /\ call.target_list # <<>>
    /\ ~IsSpell(CurrentRule)
    /\ CurrentRule.update = "Gravity"
    /\ IF update_panics(info, Head(call.target_list))
       THEN /\ panicked' = TRUE
            /\ UNCHANGED <<info, call>>
       ELSE /\ \E draws \in [1..5 -> Draw] :
                  info' = gravity_update(info, Head(call.target_list), draws)
            /\ call' = [call EXCEPT !.target_list = Tail(@)]
            /\ UNCHANGED panicked
    /\ UNCHANGED <<touching, results, applied, commands, steps>>
    /\ UNCHANGED storage_vars
    /\ UNCHANGED <<flip_sim_dir, grid>>

\* UpdateRule::Liquid => liquid_update(info, target), with the draw for
\* powder_stability, the order neighbors_shuffle gives and the draw per cell
update_Liquid ==
    /\ Stepping("update")
    /\ call.target_list # <<>>
    /\ ~IsSpell(CurrentRule)
    /\ CurrentRule.update = "Liquid"
    /\ IF update_panics(info, Head(call.target_list))
       THEN /\ panicked' = TRUE
            /\ UNCHANGED <<info, call>>
       ELSE /\ LET target == Head(call.target_list)
                    cells == neighbors(target[2], target[3], <<-1, 1>>, <<0>>)
                IN  \E settle \in Draw, draws \in [1..2 -> Draw],
                       to_check \in Orders({cells[i] : i \in DOMAIN cells}) :
                        info' = liquid_update(info, target, settle, to_check, draws)
            /\ call' = [call EXCEPT !.target_list = Tail(@)]
            /\ UNCHANGED panicked
    /\ UNCHANGED <<touching, results, applied, commands, steps>>
    /\ UNCHANGED storage_vars
    /\ UNCHANGED <<flip_sim_dir, grid>>

NextRules ==
    \/ \E key \in RulePropertyKey, value \in PropertyValue : world_set(key[1], key[2], value)
    \/ \E pos \in Position : insert_collider(1, pos)
    \/ \E update_rules \in UpdateRules : step(update_rules)
    \/ step_rule
    \/ step_return
    \/ step_next_rule
    \/ spell_update
    \/ \E draw \in Draw : spell_update_result(draw)
    \/ spell_update_return

SpecRules == InitWorld /\ [][NextRules]_vars

(***************************************************************************)
(* The rule "Burning coal lights the air around it on fire", stepped on    *)
(* worlds with coal, air and water in a corner of the grid.                *)
(***************************************************************************)
\* set_block_range(&mut info, x..x + 1, y..y + 1, id), called between two calls
set_block_range(x, y, id) ==
    /\ WorldIdle
    /\ info' = set_block(info, x, y, Block_new(id))
    /\ UNCHANGED <<touching, call, results, applied, commands, steps, panicked>>
    /\ UNCHANGED storage_vars
    /\ UNCHANGED <<flip_sim_dir, grid>>

\* the rule with its rate of 0.2, and forced to 1.0
CoalRate == {20, 100}
CoalRule(rate) ==
    SpellRule(rate, None, <<Is("Coal"), Is("Burning"), Adjacent, Is(AIR)>>, <<Send("Burning")>>)

\* the lists of rules step is called with
BurnRules == {<<CoalRule(rate)>> : rate \in CoalRate}

\* the cells that are given a material and a Burning, the materials (a cell
\* that is given none holds air) and the values of Burning
BurnCell == {<<0, 0>>, <<1, 0>>, <<1, 1>>}
BurnMaterial == {"Coal", "Water"}
BurnValue == {5, ONE}

NextBurn ==
    \/ \E c \in BurnCell, id \in BurnMaterial : set_block_range(c[1], c[2], id)
    \/ \E c \in BurnCell, value \in BurnValue :
          world_set(Block(c[1], c[2]), "Burning", value)
    \/ \E update_rules \in BurnRules : step(update_rules)
    \/ step_rule
    \/ step_return
    \/ step_next_rule
    \/ spell_update
    \/ \E draw \in Draw : spell_update_result(draw)
    \/ spell_update_return

SpecBurn == InitWorld /\ [][NextBurn]_vars

(***************************************************************************)
(* Gravity and Liquid, stepped on worlds with water, smoke and sand in the *)
(* lower left corner of the grid.                                          *)
(***************************************************************************)
PhysicsRules ==
    {<<UpdateRule_Gravity>>, <<UpdateRule_Liquid>>, <<UpdateRule_Gravity, UpdateRule_Liquid>>}

\* the cells that are given a material, and the materials (a cell that is
\* given none holds air)
PhysicsCell == {<<0, 0>>, <<0, 1>>, <<1, 1>>}
PhysicsMaterial == {"Water", "Smoke", "Sand"}

NextPhysics ==
    \/ \E c \in PhysicsCell, id \in PhysicsMaterial : set_block_range(c[1], c[2], id)
    \/ world_set(Block(0, 1), "Burning", ONE)
    \/ \E update_rules \in PhysicsRules : step(update_rules)
    \/ step_rule
    \/ step_return
    \/ step_next_rule
    \/ update_Gravity
    \/ update_Liquid

SpecPhysics == InitWorld /\ [][NextPhysics]_vars

(***************************************************************************)
(* liquid_update and gravity_update on worlds that hold settled liquids.   *)
(* No rule settles a liquid (powder_stability is 0.0 for Water, Smoke and  *)
(* Steam, and no draw is < 0.0), so these worlds are built with set_block  *)
(* from blocks whose flag POWDER_STABLE was set with Block::set.           *)
(***************************************************************************)
\* block.set(POWDER_STABLE, true); info.set_block(x, y, block), called between
\* two calls
world_set_block(x, y, id) ==
    /\ WorldIdle
    /\ info' = set_block(info, x, y, [Block_new(id) EXCEPT !.POWDER_STABLE = TRUE])
    /\ UNCHANGED <<touching, call, results, applied, commands, steps, panicked>>
    /\ UNCHANGED storage_vars
    /\ UNCHANGED <<flip_sim_dir, grid>>

SettledMaterial == {"Water", "Smoke"}

NextSettled ==
    \/ \E c \in PhysicsCell, id \in PhysicsMaterial : set_block_range(c[1], c[2], id)
    \/ \E c \in PhysicsCell, id \in SettledMaterial : world_set_block(c[1], c[2], id)
    \/ \E update_rules \in PhysicsRules : step(update_rules)
    \/ step_rule
    \/ step_return
    \/ step_next_rule
    \/ update_Gravity
    \/ update_Liquid

SpecSettled == InitWorld /\ [][NextSettled]_vars

(***************************************************************************)
(* The rule Gravity, stepped on a grid of air with a square of sand above  *)
(* a floor of stone.                                                       *)
(***************************************************************************)
\* the number of calls of step
SandTicks == 50

\* set_block_range(.., 0..GRID_SIZE, 5..6, *STONE) and
\* set_block_range(.., 10..15, 10..15, *SAND) on a grid of air
SandWorld ==
    [EmptyWorld EXCEPT !.blocks =
        [c \in {<<x, 5>> : x \in 0..(GRID_SIZE - 1)} \cup ((10..14) \X (10..14)) |->
            IF c[2] = 5 THEN Block_new("Stone") ELSE Block_new("Sand")]]

InitSand ==
    /\ StorageManager_new
    /\ info = SandWorld
    /\ call = NoCall
    /\ results = <<>>
    /\ applied = None
    /\ commands = <<>>
    /\ steps = 0
    /\ BlockGrid_default
    /\ touching \in BOOLEAN

\* the steps of Gravity; water may be poured above the floor beside the sand
NextSand ==
    \/ set_block_range(20, 7, "Water")
    \/ step_within(<<UpdateRule_Gravity>>, SandTicks)
    \/ step_rule
    \/ step_return
    \/ step_next_rule
    \/ update_Gravity

SpecSand == InitSand /\ [][NextSand]_vars

(***************************************************************************)
(* cells.rs: BlockGrid::step, the scan of the grid.                        *)
(***************************************************************************)
\* how many calls of BlockGrid::step are followed
MaxGridSteps == 3

\* the update_rules of system_setup_block_grid: three rules, then the eight FIRE_RULES
GridRules ==
    <<"ResetUpdateRule", "PowderUpdateRule", "LiquidUpdateRule">>
        \o [r \in 1..8 |-> "ChemicalUpdateRule"]

\* num::range_step(start, stop, step): start, start + step, .. while short of stop
range_step(start, stop, by) ==
    LET count == IF by > 0 /\ start < stop THEN (stop - start + by - 1) \div by
                 ELSE IF by < 0 /\ start > stop THEN (start - stop - by - 1) \div (0 - by)
                 ELSE 0
    IN  [i \in 1..count |-> start + (i - 1) * by]

\* the xs of BlockGrid::step
scan_xs(flip) ==
    IF flip THEN range_step(GRID_SIZE - 1, 0, -1) ELSE range_step(0, GRID_SIZE, 1)

\* BlockGrid::step is called: xs and ys are computed, the first rule is taken
BlockGrid_step(update_rules) ==
    /\ WorldIdle
    /\ steps < MaxGridSteps
    /\ steps' = steps + 1
    /\ call' = [op |-> "BlockGrid_step", update_rules |-> update_rules, rule |-> 1,
                xs |-> scan_xs(flip_sim_dir), y |-> 0, updated |-> <<>>]
    /\ UNCHANGED <<touching, info, results, applied, commands, panicked>>
    /\ UNCHANGED storage_vars
    /\ UNCHANGED <<flip_sim_dir, grid>>

GridScanning == call.op = "BlockGrid_step" /\ ~panicked

\* one turn of `for y in ys.clone()`: rule.update(self, x, y) for every x of xs,
\* in the order of xs; `updated` keeps the calls of this row
BlockGrid_row ==
    /\ GridScanning
    /\ call.rule <= Len(call.update_rules)
    /\ call.y < GRID_SIZE
    /\ call' = [call EXCEPT !.y = call.y + 1,
                            !.updated = [i \in DOMAIN call.xs |-> <<call.xs[i], call.y>>]]
    /\ UNCHANGED <<touching, info, results, applied, commands, steps, panicked>>
    /\ UNCHANGED storage_vars
    /\ UNCHANGED <<flip_sim_dir, grid>>

\* ys is exhausted: the next turn of `for rule in &update_rules.update_rules`
BlockGrid_next_rule ==
    /\ GridScanning
    /\ call.rule <= Len(call.update_rules)
    /\ call.y = GRID_SIZE
    /\ call' = [call EXCEPT !.rule = call.rule + 1, !.y = 0, !.updated = <<>>]
    /\ UNCHANGED <<touching, info, results, applied, commands, steps, panicked>>
    /\ UNCHANGED storage_vars
    /\ UNCHANGED <<flip_sim_dir, grid>>

\* the rules are exhausted: self.flip_sim_dir = !self.flip_sim_dir
BlockGrid_return ==
    /\ GridScanning
    /\ call.rule > Len(call.update_rules)
    /\ flip_sim_dir' = ~flip_sim_dir
    /\ call' = NoCall
    /\ UNCHANGED <<touching, info, results, applied, commands, steps, panicked, grid>>
    /\ UNCHANGED storage_vars

NextGrid ==
    \/ BlockGrid_step(GridRules)
    \/ BlockGrid_row
    \/ BlockGrid_next_rule
    \/ BlockGrid_return

SpecGrid == InitWorld /\ [][NextGrid]_vars

(***************************************************************************)
(* cells.rs: the update rules of the BlockGrid.  A Block is its id and its *)
(* stored_properties; color_seed and damage are read by no rule.           *)
(* ALL_BLOCK_DATA of cells.rs holds the values of the one of blocks.rs.    *)
(* Probabilities of chemical rules are counted in thousandths.             *)
(***************************************************************************)
\* Block::default of cells.rs
Block_default ==
    [id |-> AIR, MOVED_THIS_STEP |-> FALSE, POWDER_STABLE |-> FALSE, BURNING |-> FALSE]

\* BlockGrid::get
BlockGrid_get(g, x, y) == IF <<x, y>> \in DOMAIN g THEN g[<<x, y>>] ELSE Block_default

\* BlockGrid::set
BlockGrid_set(g, x, y, block) ==
    LET keys == IF block = Block_default
                THEN DOMAIN g \ {<<x, y>>}
                ELSE DOMAIN g \cup {<<x, y>>}
    IN  [c \in keys |-> IF c = <<x, y>> THEN block ELSE g[c]]

\* the orders r.shuffle may leave a Vec of up to three, or up to two, elements in
Shuffle == Orders({1, 2, 3})
ShufflePair == Orders({1, 2})

\* BlockGrid::neighbors_shuffle, the shuffle having picked `order`
BlockGrid_neighbors_shuffle(x, y, xs, ys, order) ==
    LET r == neighbors(x, y, xs, ys)
        keep == SelectSeq(order, LAMBDA k : k <= Len(r))
    IN  [i \in 1..Len(keep) |-> r[keep[i]]]

\* UpdateRule::reset_update
UpdateRule_reset_update(g, x, y) ==
    BlockGrid_set(g, x, y, [BlockGrid_get(g, x, y) EXCEPT !.MOVED_THIS_STEP = FALSE])

RECURSIVE powder_unsettle(_, _)
\* the last loop of powder_try_moves: the powders around (x, y) are stable no more
powder_unsettle(g, cells) ==
    IF cells = <<>>
    THEN g
    ELSE LET x3 == Head(cells)[1]
             y3 == Head(cells)[2]
             block3 == BlockGrid_get(g, x3, y3)
         IN  IF data(block3).physics = "Powder"
             THEN powder_unsettle(
                      BlockGrid_set(g, x3, y3, [block3 EXCEPT !.POWDER_STABLE = FALSE]),
                      Tail(cells))
             ELSE powder_unsettle(g, Tail(cells))

\* the swap of powder_try_moves and of liquid_update: the flags and the two sets
BlockGrid_swap(g, x, y, block, x2, y2, block2) ==
    LET moved == [block EXCEPT !.MOVED_THIS_STEP = TRUE]
        moved2 == IF block2.id # AIR THEN [block2 EXCEPT !.MOVED_THIS_STEP = TRUE] ELSE block2
    IN  BlockGrid_set(BlockGrid_set(g, x, y, moved2), x2, y2, moved)

RECURSIVE UpdateRule_powder_try_moves(_, _, _, _)
\* UpdateRule::powder_try_moves
UpdateRule_powder_try_moves(g, x, y, to_check) ==
    IF to_check = <<>>
    THEN g
    ELSE LET block == BlockGrid_get(g, x, y)
             x2 == Head(to_check)[1]
             y2 == Head(to_check)[2]
             block2 == BlockGrid_get(g, x2, y2)
         IN  IF block2.MOVED_THIS_STEP \/ data(block2).density >= data(block).density
             THEN UpdateRule_powder_try_moves(g, x, y, Tail(to_check))
             ELSE powder_unsettle(BlockGrid_swap(g, x, y, block, x2, y2, block2),
                                  neighbors(x, y, <<-1, 0, 1>>, <<-1, 0, 1>>))

\* UpdateRule::powder_update; settle is the draw of rand::random, order_below
\* and order_beside are what the two shuffles picked
UpdateRule_powder_update(g, x, y, settle, order_below, order_beside) ==
    LET block == BlockGrid_get(g, x, y)
        settled == settle < data(block).powder_stability
        g2 == IF settled
              THEN BlockGrid_set(g, x, y, [block EXCEPT !.POWDER_STABLE = TRUE])
              ELSE g
    IN  IF block.MOVED_THIS_STEP \/ data(block).physics # "Powder"
        THEN g
        ELSE IF settled \/ block.POWDER_STABLE
        THEN UpdateRule_powder_try_moves(g2, x, y, neighbors(x, y, <<0>>, <<-1>>))
        ELSE UpdateRule_powder_try_moves(g2, x, y,
                 neighbors(x, y, <<0>>, <<-1>>)
                     \o BlockGrid_neighbors_shuffle(x, y, <<-1, 1>>, <<-1>>, order_below)
                     \o BlockGrid_neighbors_shuffle(x, y, <<-1, 1>>, <<0>>, order_beside))

RECURSIVE liquid_try_moves(_, _, _, _, _)
\* the loop of UpdateRule::liquid_update over to_check
liquid_try_moves(g, x, y, down, to_check) ==
    IF to_check = <<>>
    THEN g
    ELSE LET block == BlockGrid_get(g, x, y)
             x2 == Head(to_check)[1]
             y2 == Head(to_check)[2]
             block2 == BlockGrid_get(g, x2, y2)
         IN  IF block2.MOVED_THIS_STEP
                \/ down * (data(block2).density - data(block).density) <= 0
             THEN liquid_try_moves(g, x, y, down, Tail(to_check))
             ELSE BlockGrid_swap(g, x, y, block, x2, y2, block2)

\* UpdateRule::liquid_update of cells.rs (liquid_update is the one of rules.rs)
UpdateRule_liquid_update(g, x, y, order_down, order_beside) ==
    LET block == BlockGrid_get(g, x, y)
        down == IF data(block).density >= 10 THEN -1 ELSE 1
    IN  IF block.MOVED_THIS_STEP \/ data(block).physics # "Liquid"
        THEN g
        ELSE liquid_try_moves(g, x, y, down,
                 BlockGrid_neighbors_shuffle(x, y, <<-1, 0, 1>>, <<down>>, order_down)
                     \o BlockGrid_neighbors_shuffle(x, y, <<-1, 1>>, <<0>>, order_beside))

\* the material at an index of ALL_BLOCK_DATA
Id(n) ==
    <<"Air", "Stone", "Water", "Sand", "Wood", "Coal", "Fire", "Smoke", "Steam">>[n + 1]

\* Reagent::new
Reagent_new == [selectors |-> <<>>, effects |-> <<>>]

\* Reagent::select_block
select_block(reagent, id) ==
    [reagent EXCEPT !.selectors = Append(@, <<"Block", Id(id)>>)]

\* Reagent::select_prop
select_prop(reagent, property, value) ==
    [reagent EXCEPT !.selectors = Append(@, <<"Property", property, value>>)]

\* Reagent::transform
transform(reagent, id) ==
    [reagent EXCEPT !.effects = Append(@, <<"Transform", Id(id)>>)]

\* Reagent::set_prop
set_prop(reagent, property, value) ==
    [reagent EXCEPT !.effects = Append(@, <<"SetProperty", property, value>>)]

\* Reagent::matches
Reagent_matches(reagent, block) ==
    \A i \in DOMAIN reagent.selectors :
        LET s == reagent.selectors[i]
        IN  IF s[1] = "Block" THEN block.id = s[2] ELSE block[s[2]] = s[3]

RECURSIVE update_effects(_, _)
\* the loop of Reagent::update over the effects
update_effects(effects, block) ==
    IF effects = <<>>
    THEN block
    ELSE LET effect == Head(effects)
         IN  update_effects(Tail(effects),
                 IF effect[1] = "Transform"
                 THEN [block EXCEPT !.id = effect[2]]
                 ELSE [block EXCEPT ![effect[2]] = effect[3]])

\* Reagent::update
Reagent_update(reagent, block) == update_effects(reagent.effects, block)

\* FIRE_RULES, in the order of the Vec
FIRE_RULES ==
    <<[probability |-> 50,
       main_reagent |-> transform(select_block(Reagent_new, 6), 0),
       other_reagents |-> <<>>],
      [probability |-> 200,
       main_reagent |-> select_block(Reagent_new, 6),
       other_reagents |->
           <<<<1, set_prop(select_block(Reagent_new, 5), "BURNING", TRUE)>>>>],
      [probability |-> 10,
       main_reagent |->
           set_prop(select_prop(Reagent_new, "BURNING", TRUE), "BURNING", FALSE),
       other_reagents |-> <<>>],
      [probability |-> 200,
       main_reagent |-> select_prop(Reagent_new, "BURNING", TRUE),
       other_reagents |-> <<<<1, transform(select_block(Reagent_new, 0), 6)>>>>],
      [probability |-> 5,
       main_reagent |->
           set_prop(transform(select_prop(Reagent_new, "BURNING", TRUE), 7),
                    "BURNING", FALSE),
       other_reagents |-> <<>>],
      [probability |-> 2,
       main_reagent |-> transform(select_block(Reagent_new, 7), 0),
       other_reagents |-> <<>>],
      [probability |-> 1000,
       main_reagent |-> transform(select_block(Reagent_new, 6), 0),
       other_reagents |-> <<<<1, transform(select_block(Reagent_new, 2), 8)>>>>],
      [probability |-> 2,
       main_reagent |-> transform(select_block(Reagent_new, 8), 2),
       other_reagents |-> <<>>]>>

\* a first_match that may select a cell a second time
first_match_again(g, x, y, reagent, cells, selections) ==
    LET found == {i \in DOMAIN cells :
                    /\ cells[i] # <<x, y>>
                    /\ Reagent_matches(reagent, BlockGrid_get(g, cells[i][1], cells[i][2]))}
    IN  IF found = {}
        THEN None
        ELSE Some(cells[CHOOSE i \in found : \A j \in found : i <= j])

\* the first cell of `cells` that is not (x, y), holds a block the reagent
\* matches and is not selected yet, as an Option
first_match(g, x, y, reagent, cells, selections) ==
    LET found == {i \in DOMAIN cells :
                    /\ cells[i] # <<x, y>>
                    /\ Reagent_matches(reagent, BlockGrid_get(g, cells[i][1], cells[i][2]))
                    /\ \A k \in DOMAIN selections : selections[k] # cells[i]}
    IN  IF found = {}
        THEN None
        ELSE Some(cells[CHOOSE i \in found : \A j \in found : i <= j])

RECURSIVE select_reagents(_, _, _, _, _)
\* the loop 'a of ChemicalUpdateRule::update: the selections as an Option, None
\* when a reagent finds no cell
select_reagents(g, x, y, other_reagents, selections) ==
    IF other_reagents = <<>>
    THEN Some(selections)
    ELSE LET dist == Head(other_reagents)[1]
             range == [i \in 1..(2 * dist + 1) |-> i - (dist + 1)]
             found == first_match(g, x, y, Head(other_reagents)[2],
                                  neighbors(x, y, range, range), selections)
         IN  IF found = None
             THEN None
             ELSE select_reagents(g, x, y, Tail(other_reagents),
                                  Append(selections, unwrap(found)))

RECURSIVE update_selections(_, _, _)
\* the last loop of ChemicalUpdateRule::update, over the zip of the selections
\* and the other reagents
update_selections(g, selections, other_reagents) ==
    IF selections = <<>> \/ other_reagents = <<>>
    THEN g
    ELSE LET x2 == Head(selections)[1]
             y2 == Head(selections)[2]
             block2 == BlockGrid_get(g, x2, y2)
         IN  update_selections(
                 BlockGrid_set(g, x2, y2, Reagent_update(Head(other_reagents)[2], block2)),
                 Tail(selections), Tail(other_reagents))

\* ChemicalUpdateRule::update; draw is the draw of rand::random
ChemicalUpdateRule_update(rule, g, x, y, draw) ==
    LET block == BlockGrid_get(g, x, y)
        selections == select_reagents(g, x, y, rule.other_reagents, <<>>)
    IN  IF ~(10 * draw < rule.probability)
        THEN g
        ELSE IF ~Reagent_matches(rule.main_reagent, block)
        THEN g
        ELSE IF selections = None
        THEN g
        ELSE update_selections(
                 BlockGrid_set(g, x, y, Reagent_update(rule.main_reagent, block)),
                 unwrap(selections), rule.other_reagents)

\* a rule with two other reagents: fire goes out with two waters around it
PairRule ==
    [probability |-> 1000,
     main_reagent |-> transform(select_block(Reagent_new, 6), 0),
     other_reagents |-> <<<<1, transform(select_block(Reagent_new, 2), 8)>>,
                          <<1, transform(select_block(Reagent_new, 2), 8)>>>>]

ChemicalRules == {FIRE_RULES[i] : i \in DOMAIN FIRE_RULES} \cup {PairRule}

\* the cells blocks are placed in and rules are applied to, in a corner of the grid
CellWindow == {<<0, 0>>, <<1, 0>>, <<0, 1>>, <<1, 1>>}
CellMaterial == {"Air", "Stone", "Water", "Coal", "Smoke"}
ChemicalWindow == {<<0, 0>>, <<1, 0>>, <<1, 1>>}
ChemicalMaterial == {"Air", "Stone", "Water", "Coal", "Fire"}

\* BlockGrid::default followed by set_range(x..x + 1, y..y + 1, id) for the
\* cells of the window
CellWorlds(window, materials) ==
    {[c \in {c \in window : placed[c] # AIR} |-> [Block_default EXCEPT !.id = placed[c]]] :
        placed \in [window -> materials]}

InitCells ==
    /\ StorageManager_new
    /\ WorldInfo_default
    /\ flip_sim_dir = FALSE
    /\ grid \in CellWorlds(CellWindow, CellMaterial)
    /\ touching = FALSE

InitChemical ==
    /\ StorageManager_new
    /\ WorldInfo_default
    /\ flip_sim_dir = FALSE
    /\ grid \in CellWorlds(ChemicalWindow, ChemicalMaterial)
    /\ touching = FALSE

\* UpdateRule::update, the arm of ResetUpdateRule
Update_ResetUpdateRule(x, y) ==
    /\ WorldIdle
    /\ grid' = UpdateRule_reset_update(grid, x, y)
    /\ UNCHANGED <<spell_vars_but_grid, panicked>>
    /\ UNCHANGED storage_vars

\* UpdateRule::update, the arm of PowderUpdateRule
Update_PowderUpdateRule(x, y) ==
    /\ WorldIdle
    /\ \E settle \in Draw, order_below \in ShufflePair, order_beside \in ShufflePair :
          grid' = UpdateRule_powder_update(grid, x, y, settle, order_below, order_beside)
    /\ UNCHANGED <<spell_vars_but_grid, panicked>>
    /\ UNCHANGED storage_vars

\* UpdateRule::update, the arm of LiquidUpdateRule
Update_LiquidUpdateRule(x, y) ==
    /\ WorldIdle
    /\ \E order_down \in Shuffle, order_beside \in ShufflePair :
          grid' = UpdateRule_liquid_update(grid, x, y, order_down, order_beside)
    /\ UNCHANGED <<spell_vars_but_grid, panicked>>
    /\ UNCHANGED storage_vars

\* UpdateRule::update, the arm of ChemicalUpdateRule
\* when traced, `applied` keeps the rule, the cell and whether the grid was written
Update_ChemicalUpdateRule(rule, x, y, traced) ==
    /\ WorldIdle
    /\ \E draw \in Draw : grid' = ChemicalUpdateRule_update(rule, grid, x, y, draw)
    /\ applied' = IF traced
                  THEN Some([rule |-> rule, x |-> x, y |-> y, changed |-> grid' # grid])
                  ELSE applied
    /\ UNCHANGED <<touching, info, call, results, commands, steps, flip_sim_dir, panicked>>
    /\ UNCHANGED storage_vars

NextCells ==
    \/ \E c \in CellWindow : Update_ResetUpdateRule(c[1], c[2])
    \/ \E c \in CellWindow : Update_PowderUpdateRule(c[1], c[2])
    \/ \E c \in CellWindow : Update_LiquidUpdateRule(c[1], c[2])
    \/ \E rule \in ChemicalRules, c \in CellWindow :
          Update_ChemicalUpdateRule(rule, c[1], c[2], FALSE)

SpecCells == InitCells /\ [][NextCells]_vars

\* the chemical rules alone, on worlds with fire
NextChemical ==
    \E rule \in ChemicalRules, c \in ChemicalWindow :
        Update_ChemicalUpdateRule(rule, c[1], c[2], TRUE)

SpecChemical == InitChemical /\ [][NextChemical]_vars

(***************************************************************************)
(* parser.rs: the parser of rules files.  The input is the sequence of its *)
(* lexemes: a number, a word, a punctuation mark, one space " " or one     *)
(* line ending "\n"; tag and float take one lexeme.  An IResult is a       *)
(* record of kind "Ok" (with the rest of the input and the value), "Error" *)
(* (Err::Error, which alt and many0 recover from) or "Failure"             *)
(* (Err::Failure, raised by cut).                                          *)
(***************************************************************************)
ParseOk(rest, value) == [kind |-> "Ok", rest |-> rest, value |-> value]

ParseError == [kind |-> "Error"]
ParseFailure == [kind |-> "Failure"]

\* the lexemes float takes, and those of the tags of property (a sample of
\* them), selector_keyword, unary_operator and binary_operator
FloatLexeme == {"1", "0.1", "0.5"}
PropertyLexeme == {"Burning", "Flammable", "Oily"}
SelectorKeywordLexeme == {"area", "sight", "not", "any"}
UnaryOperatorLexeme == {"produce", "consume", "share"}
BinaryOperatorLexeme == {"at-least", "at-most"}

RECURSIVE space0(_)
\* space0: the input after its leading spaces
space0(input) ==
    IF input # <<>> /\ Head(input) = " " THEN space0(Tail(input)) ELSE input

RECURSIVE multispace0(_)
\* multispace0: the input after its leading spaces and line endings
multispace0(input) ==
    IF input # <<>> /\ Head(input) \in {" ", "\n"} THEN multispace0(Tail(input)) ELSE input

\* tag(t)
tag(t, input) ==
    IF input # <<>> /\ Head(input) = t THEN ParseOk(Tail(input), t) ELSE ParseError

\* float
float(input) ==
    IF input # <<>> /\ Head(input) \in FloatLexeme
    THEN ParseOk(Tail(input), Head(input))
    ELSE ParseError

\* atom
atom(input) ==
    IF input = <<>>
    THEN ParseError
    ELSE LET lexeme == Head(input)
             class == IF lexeme \in FloatLexeme THEN "Float"
                      ELSE IF lexeme \in PropertyLexeme THEN "Property"
                      ELSE IF lexeme \in SelectorKeywordLexeme THEN "SelectorKeyword"
                      ELSE IF lexeme \in UnaryOperatorLexeme THEN "UnaryOperator"
                      ELSE IF lexeme \in BinaryOperatorLexeme THEN "BinaryOperator"
                      ELSE "none"
         IN  IF class = "none" THEN ParseError ELSE ParseOk(Tail(input), <<class, lexeme>>)

RECURSIVE parse_sexpr(_, _, _)
\* sexpr, list and the many1(preceded(multispace0, sexpr)) of list, which call
\* one another: `parser` says which of them is running, acc holds the
\* expressions many1 has collected
parse_sexpr(parser, input, acc) ==
    IF parser = "sexpr"
    THEN Once(atom(input), LAMBDA a :
             IF a.kind = "Ok"
             THEN ParseOk(a.rest, <<"Atom", a.value>>)
             ELSE Once(parse_sexpr("list", input, <<>>), LAMBDA es :
                      IF es.kind = "Ok" THEN ParseOk(es.rest, <<"List", es.value>>) ELSE es))
    ELSE IF parser = "list"
    THEN IF input = <<>> \/ Head(input) # "("
         THEN ParseError
         ELSE Once(parse_sexpr("many1", Tail(input), <<>>), LAMBDA es :
                  IF es.kind # "Ok"
                  THEN es
                  ELSE Once(tag(")", multispace0(es.rest)), LAMBDA close :
                           IF close.kind = "Ok"
                           THEN ParseOk(close.rest, es.value)
                           ELSE ParseFailure))
    ELSE Once(parse_sexpr("sexpr", multispace0(input), <<>>), LAMBDA e :
             IF e.kind = "Ok"
             THEN parse_sexpr("many1", e.rest, Append(acc, e.value))
             ELSE IF e.kind = "Failure"
             THEN e
             ELSE IF acc = <<>> THEN ParseError ELSE ParseOk(input, acc))

\* list
list_parser(input) == parse_sexpr("list", input, <<>>)

\* sexpr
sexpr(input) == parse_sexpr("sexpr", input, <<>>)

\* a Result of the conversions: Ok(value) or Err(message)
ExprOk(value) == [kind |-> "Ok", value |-> value]
ExprErr == [kind |-> "Err"]

RECURSIVE selector_expr(_)
\* selector_expr
selector_expr(expr) ==
    IF expr[1] = "Atom"
    THEN IF expr[2][1] = "Property" THEN ExprOk(<<"Property", expr[2][2]>>)
         ELSE IF expr[2] = <<"SelectorKeyword", "area">> THEN ExprOk(<<"Area">>)
         ELSE IF expr[2] = <<"SelectorKeyword", "sight">> THEN ExprOk(<<"Sight">>)
         ELSE ExprErr
    ELSE LET es == expr[2]
         IN  IF Len(es) = 2 /\ es[1] \in {<<"Atom", <<"SelectorKeyword", "not">>>>,
                                          <<"Atom", <<"SelectorKeyword", "any">>>>}
             THEN LET e == selector_expr(es[2])
                  IN  IF e.kind # "Ok"
                      THEN e
                      ELSE ExprOk(<<IF es[1][2][2] = "not" THEN "Not" ELSE "Any", e.value>>)
             ELSE ExprErr

\* scaled_property_expr
scaled_property_expr(expr) ==
    IF expr[1] = "Atom"
    THEN IF expr[2][1] = "Property" THEN ExprOk(<<"1", expr[2][2]>>) ELSE ExprErr
    ELSE LET es == expr[2]
         IN  IF /\ Len(es) = 2
                /\ es[1][1] = "Atom" /\ es[1][2][1] = "Float"
                /\ es[2][1] = "Atom" /\ es[2][2][1] = "Property"
             THEN ExprOk(<<es[1][2][2], es[2][2][2]>>)
             ELSE ExprErr

\* effect_expr
effect_expr(expr) ==
    IF expr[1] = "Atom"
    THEN ExprErr
    ELSE LET es == expr[2]
         IN  IF Len(es) = 2 /\ es[1][1] = "Atom" /\ es[1][2][1] = "UnaryOperator"
             THEN LET e == scaled_property_expr(es[2])
                  IN  IF e.kind # "Ok" THEN e ELSE ExprOk(<<"Unary", es[1][2][2], e.value>>)
             ELSE IF Len(es) = 3 /\ es[2][1] = "Atom" /\ es[2][2][1] = "BinaryOperator"
             THEN LET lhs == scaled_property_expr(es[1])
                      rhs == scaled_property_expr(es[3])
                  IN  IF lhs.kind # "Ok" THEN lhs
                      ELSE IF rhs.kind # "Ok" THEN rhs
                      ELSE ExprOk(<<"Binary", lhs.value, es[2][2][2], rhs.value>>)
             ELSE ExprErr

\* selector: map_res(sexpr, selector_expr)
selector_parser(input) ==
    Once(sexpr(input), LAMBDA e :
        IF e.kind # "Ok"
        THEN e
        ELSE Once(selector_expr(e.value), LAMBDA converted :
                 IF converted.kind = "Ok" THEN ParseOk(e.rest, converted.value) ELSE ParseError))

\* effect: map_res(sexpr, effect_expr)
effect_parser(input) ==
    Once(sexpr(input), LAMBDA e :
        IF e.kind # "Ok"
        THEN e
        ELSE Once(effect_expr(e.value), LAMBDA converted :
                 IF converted.kind = "Ok" THEN ParseOk(e.rest, converted.value) ELSE ParseError))

RECURSIVE many0_selector(_, _)
\* many0(preceded(space0, selector)) of rule
many0_selector(input, acc) ==
    Once(selector_parser(space0(input)), LAMBDA e :
        IF e.kind = "Ok" THEN many0_selector(e.rest, Append(acc, e.value))
        ELSE IF e.kind = "Failure" THEN e
        ELSE ParseOk(input, acc))

RECURSIVE many0_effect(_, _)
\* many0(preceded(space0, effect)) of rule
many0_effect(input, acc) ==
    Once(effect_parser(space0(input)), LAMBDA e :
        IF e.kind = "Ok" THEN many0_effect(e.rest, Append(acc, e.value))
        ELSE IF e.kind = "Failure" THEN e
        ELSE ParseOk(input, acc))

\* Rule::new
Rule_new(strength, rule_selectors, effects) ==
    [strength |-> strength, selectors |-> rule_selectors, effects |-> effects]

\* rule
rule_parser(input) ==
    Once(float(input), LAMBDA strength :
    IF strength.kind # "Ok" THEN strength ELSE
    Once(tag(":", space0(strength.rest)), LAMBDA colon :
    IF colon.kind # "Ok" THEN colon ELSE
    Once(many0_selector(colon.rest, <<>>), LAMBDA rule_selectors :
    IF rule_selectors.kind # "Ok" THEN rule_selectors ELSE
    Once(tag("=>", space0(rule_selectors.rest)), LAMBDA arrow :
    IF arrow.kind # "Ok" THEN arrow ELSE
    Once(many0_effect(arrow.rest, <<>>), LAMBDA effects :
    IF effects.kind # "Ok" THEN effects ELSE
    ParseOk(effects.rest,
            Rule_new(strength.value, rule_selectors.value, effects.value)))))))

\* a rule_end that asks for nothing after a rule
rule_end_optional(input) == ParseOk(space0(input), <<>>)

\* preceded(space0, alt((value((), line_ending), value((), eof)))) of rule_set
rule_end(input) ==
    Once(space0(input), LAMBDA rest :
        IF rest = <<>> THEN ParseOk(rest, <<>>)
        ELSE IF Head(rest) = "\n" THEN ParseOk(Tail(rest), <<>>)
        ELSE ParseError)

RECURSIVE many0_rule(_, _)
\* many0(delimited(multispace0, rule, ..)) of rule_set; many0 stops with an
\* error when its parser takes nothing, which a rule never does
many0_rule(input, acc) ==
    Once(rule_parser(multispace0(input)), LAMBDA r :
        IF r.kind = "Failure" THEN r
        ELSE IF r.kind = "Error" THEN ParseOk(input, acc)
        ELSE Once(rule_end(r.rest), LAMBDA ended :
                 IF ended.kind # "Ok"
                 THEN ParseOk(input, acc)
                 ELSE many0_rule(ended.rest, Append(acc, r.value))))

\* rule_set
rule_set(input) == many0_rule(input, <<>>)

\* rules_file: terminated(rule_set, preceded(multispace0, eof))
rules_file(input) ==
    Once(rule_set(input), LAMBDA rules :
        IF rules.kind # "Ok" THEN rules
        ELSE IF multispace0(rules.rest) = <<>> THEN ParseOk(<<>>, rules.value)
        ELSE ParseError)

\* parse_rules_file: Ok(rules) or Err(SimpleError)
parse_rules_file(input) ==
    Once(rules_file(input), LAMBDA parsed :
        IF parsed.kind = "Ok" THEN ExprOk(parsed.value) ELSE ExprErr)

\* texts of one rule each with the Rule they stand for, the first three from
\* tests::it_parses_rules_file; NoRule is the empty text
RuleText ==
    <<[text |-> <<"1", ":", " ", "Flammable", " ", "=>", " ",
                 "(", "produce", " ", "Burning", ")">>,
      rule |-> Some(Rule_new("1", <<<<"Property", "Flammable">>>>,
                             <<<<"Unary", "produce", <<"1", "Burning">>>>>>))],
     [text |-> <<"0.1", ":", " ", "Burning", " ", "area", " ", "=>", " ",
                 "(", "share", " ", "Burning", ")">>,
      rule |-> Some(Rule_new("0.1", <<<<"Property", "Burning">>, <<"Area">>>>,
                             <<<<"Unary", "share", <<"1", "Burning">>>>>>))],
     [text |-> <<"0.1", ":", " ", "=>", " ", "(", "consume", " ", "Burning", ")">>,
      rule |-> Some(Rule_new("0.1", <<>>,
                             <<<<"Unary", "consume", <<"1", "Burning">>>>>>))],
     [text |-> <<"1", ":", "(", "not", " ", "(", "any", "\n", "Burning", ")", ")", "=>",
                 "(", "Flammable", " ", "at-least", " ", "(", "0.5", " ", "Oily", ")", ")">>,
      rule |-> Some(Rule_new("1", <<<<"Not", <<"Any", <<"Property", "Burning">>>>>>>>,
                             <<<<"Binary", <<"1", "Flammable">>, "at-least",
                                 <<"0.5", "Oily">>>>>>))],
     [text |-> <<"0.5", " ", ":", " ", "sight", " ", "=>">>,
      rule |-> Some(Rule_new("0.5", <<<<"Sight">>>>, <<>>))]>>

\* texts that are no rule: a list that is not closed, no colon, no arrow, an
\* effect where a selector is due
NoRuleText ==
    <<[text |-> <<"1", ":", " ", "Burning", " ", "=>", " ", "(", "produce", " ", "Burning">>,
      rule |-> None],
     [text |-> <<"1", " ", "Burning", " ", "=>">>, rule |-> None],
     [text |-> <<"1", ":", " ", "Burning">>, rule |-> None],
     [text |-> <<"1", ":", " ", "(", "produce", " ", "Burning", ")", " ", "=>">>,
      rule |-> None]>>

NoRule == [text |-> <<>>, rule |-> None]

\* what stands between two texts, and after the last
Separator == {<<>>, <<" ">>, <<"\n">>, <<" ", "\n">>, <<"\n", "\n">>}

\* how many texts a file holds at most, each followed by a separator
MaxRules == 2

\* the texts a part of a file is drawn from
Sample == <<NoRule>> \o RuleText \o NoRuleText

\* a file: the index of a text of Sample, then a separator, MaxRules times
FileParts == [1..MaxRules -> [part : DOMAIN Sample, then : Separator]]

RECURSIVE Concat(_)
Concat(seqs) == IF seqs = <<>> THEN <<>> ELSE Head(seqs) \o Concat(Tail(seqs))

\* the input the parts of a file make
FileInput(parts) ==
    Concat([i \in DOMAIN parts |-> Sample[parts[i].part].text \o parts[i].then])

\* parse_rules_file is called
parse_rules_file_call(parts) ==
    /\ WorldIdle
    /\ call' = [op |-> "parse_rules_file", parts |-> parts]
    /\ results' = <<>>
    /\ UNCHANGED <<touching, info, applied, commands, steps, panicked>>
    /\ UNCHANGED storage_vars
    /\ UNCHANGED <<flip_sim_dir, grid>>

\* parse_rules_file returns its Result
parse_rules_file_return ==
    /\ call.op = "parse_rules_file"
    /\ results = <<>>
    /\ results' = <<parse_rules_file(FileInput(call.parts))>>
    /\ UNCHANGED <<touching, info, call, applied, commands, steps, panicked>>
    /\ UNCHANGED storage_vars
    /\ UNCHANGED <<flip_sim_dir, grid>>

NextParser ==
    \/ \E parts \in (IF WorldIdle THEN FileParts ELSE {}) : parse_rules_file_call(parts)
    \/ parse_rules_file_return

SpecParser == InitWorld /\ [][NextParser]_vars

(***************************************************************************)
(* particle_model.rs, pbf.rs: compute_parallel.  The scope spawns one task *)
(* per chunk of the vector; the tasks run on the threads of the pool, in   *)
(* any interleaving, and the scope waits for them.  call.invoked holds     *)
(* the calls of f made so far: the task, the index i that f is given and   *)
(* the element of the vector that chunk[i % ASYNC_CHUNK_SIZE] is.          *)
(***************************************************************************)
ASYNC_CHUNK_SIZE == 50

\* the longest vector compute_parallel is called with
MaxLen == 101

\* vec.chunks_mut(chunk_size).enumerate(): block -> the chunk, as the index of
\* its first element in vec and its length; the last chunk holds what is left
chunks_mut(length, chunk_size) ==
    [block \in 0..(((length + chunk_size - 1) \div chunk_size) - 1) |->
        [first |-> block * chunk_size,
         len |-> IF (block + 1) * chunk_size <= length
                 THEN chunk_size
                 ELSE length - block * chunk_size]]

\* compute_parallel(task_pool, vec, f) with a vec of the length: the loop over
\* chunks.enumerate() has spawned its tasks
compute_parallel(length) ==
    /\ WorldIdle
    /\ LET chunks == chunks_mut(length, ASYNC_CHUNK_SIZE)
       IN  call' = [op |-> "compute_parallel",
                    length |-> length,
                    tasks |-> [block \in DOMAIN chunks |->
                                  [chunk |-> chunks[block],
                                   i |-> block * ASYNC_CHUNK_SIZE,
                                   state |-> "spawned"]],
                    invoked |-> {},
                    returned |-> FALSE]
    /\ results' = <<>>
    /\ UNCHANGED <<touching, info, applied, commands, steps, panicked>>
    /\ UNCHANGED storage_vars
    /\ UNCHANGED <<flip_sim_dir, grid>>

\* one iteration of `for i in (block * ASYNC_CHUNK_SIZE)..((block + 1) *
\* ASYNC_CHUNK_SIZE)` of a spawned task, or its end: chunk[i % ASYNC_CHUNK_SIZE]
\* panics when the index is not below the length of the chunk
compute_task(task, block) ==
    IF task.i >= (block + 1) * ASYNC_CHUNK_SIZE
    THEN [task EXCEPT !.state = "finished"]
    ELSE IF task.i % ASYNC_CHUNK_SIZE >= task.chunk.len
    THEN [task EXCEPT !.state = "panicked"]
    ELSE [task EXCEPT !.i = @ + 1]

\* a thread of the pool runs the task of a chunk for one iteration
task_step(block) ==
    /\ call.op = "compute_parallel"
    /\ ~panicked
    /\ block \in DOMAIN call.tasks
    /\ call.tasks[block].state = "spawned"
    /\ LET task == call.tasks[block]
           after == compute_task(task, block)
       IN  call' = [call EXCEPT
                       !.tasks[block] = after,
                       !.invoked = IF after.i = task.i
                                   THEN @
                                   ELSE @ \cup {[task |-> block,
                                                 i |-> task.i,
                                                 element |-> task.chunk.first
                                                             + (task.i % ASYNC_CHUNK_SIZE)]}]
    /\ UNCHANGED <<touching, info, results, applied, commands, steps, panicked>>
    /\ UNCHANGED storage_vars
    /\ UNCHANGED <<flip_sim_dir, grid>>

\* task_pool.scope returns: every task it has spawned has finished
scope_return ==
    /\ call.op = "compute_parallel"
    /\ ~panicked
    /\ ~call.returned
    /\ \A block \in DOMAIN call.tasks : call.tasks[block].state = "finished"
    /\ call' = [call EXCEPT !.returned = TRUE]
    /\ UNCHANGED <<touching, info, results, applied, commands, steps, panicked>>
    /\ UNCHANGED storage_vars
    /\ UNCHANGED <<flip_sim_dir, grid>>

\* task_pool.scope meets the panic of a task it waits for and panics itself,
\* dropping the tasks that still run
scope_panic ==
    /\ call.op = "compute_parallel"
    /\ ~panicked
    /\ \E block \in DOMAIN call.tasks : call.tasks[block].state = "panicked"
    /\ panicked' = TRUE
    /\ UNCHANGED <<touching, info, call, results, applied, commands, steps>>
    /\ UNCHANGED storage_vars
    /\ UNCHANGED <<flip_sim_dir, grid>>

NextParallel ==
    \/ \E length \in 0..MaxLen : compute_parallel(length)
    \/ \E block \in 0..(MaxLen \div ASYNC_CHUNK_SIZE) : task_step(block)
    \/ scope_return
    \/ scope_panic

SpecParallel == InitWorld /\ [][NextParallel]_vars

(***************************************************************************)
(* player.rs, rules.rs: the player casts the spell of a rule with a mana   *)
(* drain.  Every frame runs cast_spell_system and                          *)
(* system_update_block_grid; a key is only pressed in the first CastTicks  *)
(* frames, and the frames go on until ManaTicks of them have run.          *)
(***************************************************************************)
\* SPELL_KEYS: the ManaId of Key1 and of Key2
SPELL_KEYS == {0, 1}

\* the entities With<Player>
PlayerEntities == {1}

\* PLAYER_RULES[0], "Create water"
CreateWater == SpellRule(INFINITY, Some(0), <<Adjacent, Is(AIR)>>, <<Add("Water")>>)

\* the lists of rules step is called with
ManaRules == {<<CreateWater>>}

\* the frames in which a key can be pressed, and the frames that are run
CastTicks == 2
ManaTicks == 12

RECURSIVE set_pressed(_, _, _)
\* for (key, mana_id) in SPELL_KEYS { if input.just_pressed(*key) { world.set(..) } }
set_pressed(world, player, pressed) ==
    IF pressed = {}
    THEN world
    ELSE LET mana_id == CHOOSE id \in pressed : \A other \in pressed : id <= other
         IN  set_pressed(info_set(world, Entity(player), Mana(mana_id), ONE),
                         player, pressed \ {mana_id})

\* cast_spell_system in a frame in which the keys of `pressed` went down
cast_spell_system(player, pressed) ==
    /\ WorldIdle
    /\ steps < CastTicks
    /\ info' = set_pressed(info, player, pressed)
    /\ UNCHANGED <<touching, call, results, applied, commands, steps, panicked>>
    /\ UNCHANGED storage_vars
    /\ UNCHANGED <<flip_sim_dir, grid>>

\* system_update_block_grid, up to the loop of step over the rules: the
\* collider of the entity is written from its Transform, then step begins
system_update_block_grid(entity, pos, update_rules) ==
    /\ WorldIdle
    /\ steps < ManaTicks
    /\ steps' = steps + 1
    /\ LET colliders == info.entity_colliders
           bounds == [e \in DOMAIN colliders \cup {entity} |->
                         IF e = entity THEN collider_at(pos) ELSE colliders[e]]
       IN  info' = reset_changes([info EXCEPT !.entity_colliders = bounds])
    /\ call' = [op |-> "step", pc |-> "rule", update_rules |-> update_rules, rule |-> 1,
                target_list |-> <<>>]
    /\ results' = <<>>
    /\ UNCHANGED <<touching, applied, commands, panicked>>
    /\ UNCHANGED storage_vars
    /\ UNCHANGED <<flip_sim_dir, grid>>

\* the systems of a frame that step the rules
TickMana ==
    \/ \E entity \in PlayerEntities, pos \in Position, update_rules \in ManaRules :
          system_update_block_grid(entity, pos, update_rules)
    \/ step_rule
    \/ step_return
    \/ step_next_rule
    \/ spell_update
    \/ \E draw \in Draw : spell_update_result(draw)
    \/ spell_update_return

NextMana ==
    \/ \E player \in PlayerEntities, pressed \in SUBSET SPELL_KEYS \ {{}} :
          cast_spell_system(player, pressed)
    \/ TickMana

\* the App runs its systems frame after frame: a step of a frame that can be
\* taken is taken
SpecMana == InitWorld /\ [][NextMana]_vars /\ WF_vars(TickMana)

(***************************************************************************)
(* Definitions the properties are stated with.                             *)
(***************************************************************************)
\* all loops of recompute_all_caches are over and the call is about to return
ReturnPoint == pc = "clear" /\ ~panicked /\ idx > Len(toposort)

RECURSIVE SumOver(_, _, _, _)
\* sum over mid in mids of a(source, mid) * b(mid, target)
SumOver(mids, a, b, p) ==
    IF mids = {}
    THEN 0
    ELSE LET mid == CHOOSE m \in mids : TRUE
         IN  (get(a, p[1], mid) * get(b, mid, p[2])) + SumOver(mids \ {mid}, a, b, p)

\* the relational product of two relations, computed from scratch
RelationalProduct(a, b) ==
    LET nonzero == {p \in Pair : SumOver(Object, a, b, p) # 0}
    IN  [p \in nonzero |-> SumOver(Object, a, b, p)]

\* a relation, or a list of (source, target, value) triples, as a full matrix
Matrix(digraph) == [p \in Pair |-> get(digraph, p[1], p[2])]

RECURSIVE Summed(_)
Summed(triples) ==
    IF triples = <<>>
    THEN [p \in Pair |-> 0]
    ELSE LET e == Head(triples)
             rest == Summed(Tail(triples))
         IN  [rest EXCEPT ![<<e[1], e[2]>>] = @ + e[3]]

MatrixProduct(a, b) == [p \in Pair |-> SumOver(Object, a, b, p)]
MatrixPlus(a, b) == [p \in Pair |-> a[p] + b[p]]
MatrixMinus(a, b) == [p \in Pair |-> a[p] - b[p]]

\* the relation as it was when its changes were last cleared
Old(tracking) ==
    [p \in Pair |-> IF p \in DOMAIN tracking.previous
                    THEN tracking.previous[p]
                    ELSE get(tracking.current, p[1], p[2])]

RegisteredBinds == {s \in Registered : IsBind(s)}

(***************************************************************************)
(* C1  Incremental/batch equivalence.  When recompute_all_caches is about  *)
(* to return, the `current` relation of every Bind(L, R) that was          *)
(* registered before the first mutation is the relational product of the   *)
(* `current` relations of L and R computed from scratch.                   *)
(***************************************************************************)
C1_IncrementalEqualsBatch ==
    ReturnPoint =>
        \A b \in early :
            selectors[b].current =
                RelationalProduct(selectors[Left(b)].current, selectors[Right(b)].current)

\* a second tick returns with a Bind of a Bind that holds a summed entry
C1_Witness ==
    /\ ReturnPoint
    /\ ticks = 1
    /\ "BindBI" \in early
    /\ \E p \in DOMAIN selectors["BindBI"].current : selectors["BindBI"].current[p] = 2

(***************************************************************************)
(* C2  The identity of the incremental maintenance.                        *)
(* As stated: new(L.R) - old(L.R) = dL.R_new + L_old.dR - dL.dR.           *)
(* As computed by recompute_cache, with the relations' views:              *)
(* new(L.R) - old(L.R) = dL.R_current + L_current.dR - dL.dR.              *)
(* Both are evaluated whenever recompute_cache of a Bind has taken its     *)
(* locks, on the old and current relations of the two operands.            *)
(***************************************************************************)
\* recompute_cache of Bind b is about to run its first loop
AboutToFold(b) ==
    pc = "recompute" /\ ~panicked /\ held # {} /\ fold = 0 /\ toposort[idx] = b

\* C2 as stated, with L_old in the second product
C2_IdentityAsStated ==
    \A b \in RegisteredBinds : AboutToFold(b) =>
        LET l == selectors[Left(b)]
            r == selectors[Right(b)]
            dl == MatrixMinus(Matrix(l.current), Old(l))
            dr == MatrixMinus(Matrix(r.current), Old(r))
        IN  MatrixMinus(MatrixProduct(Matrix(l.current), Matrix(r.current)),
                        MatrixProduct(Old(l), Old(r)))
            = MatrixMinus(MatrixPlus(MatrixProduct(dl, Matrix(r.current)),
                                     MatrixProduct(Old(l), dr)),
                          MatrixProduct(dl, dr))

\* C2 as it holds: the three products recompute_cache folds, L_current in the
\* second, sum up to new(L.R) - old(L.R)
C2_IdentityAsComputed ==
    \A b \in RegisteredBinds : AboutToFold(b) =>
        LET l == selectors[Left(b)]
            r == selectors[Right(b)]
        IN  MatrixMinus(MatrixProduct(Matrix(l.current), Matrix(r.current)),
                        MatrixProduct(Old(l), Old(r)))
            = MatrixMinus(MatrixPlus(Summed(mat_mul(diff(l), r.current)),
                                     Summed(mat_mul(l.current, diff(r)))),
                          Summed(mat_mul(diff(l), diff(r))))

\* both operands changed, and the product of the changes is not zero
C2_Witness ==
    \E b \in RegisteredBinds :
        /\ AboutToFold(b)
        /\ \E p \in Pair :
              Summed(mat_mul(diff(selectors[Left(b)]), diff(selectors[Right(b)])))[p] # 0

(***************************************************************************)
(* C3  In one recompute_all_caches call every registered selector is       *)
(* visited exactly once, and recompute_cache of a Bind runs only after     *)
(* both of its operands were visited in that call.                         *)
(***************************************************************************)
C3_EachOnceInDependencyOrder ==
    pc \in {"recompute", "clear"} =>
        /\ \A s \in Registered : Cardinality({i \in DOMAIN toposort : toposort[i] = s}) = 1
        /\ \A i \in DOMAIN toposort : toposort[i] \in Registered
        /\ \A i \in DOMAIN toposort : IsBind(toposort[i]) =>
              /\ \E j \in 1..(i - 1) : toposort[j] = Left(toposort[i])
              /\ \E j \in 1..(i - 1) : toposort[j] = Right(toposort[i])
        /\ \A b \in RegisteredBinds : (pc = "recompute" /\ held # {} /\ toposort[idx] = b) =>
              {Left(b), Right(b)} \subseteq {toposort[j] : j \in 1..(idx - 1)}

\* the first loop has visited a Bind of a Bind and all it depends on
C3_Witness ==
    /\ pc = "clear"
    /\ Len(toposort) = 4
    /\ "BindBI" \in Registered

(***************************************************************************)
(* C4  When recompute_all_caches returns, the change-tracking digraph of   *)
(* every relation the StorageManager owns is empty: that of every          *)
(* selector, of `material` and of every block property.                    *)
(***************************************************************************)
C4_AllChangesClearedAtReturn ==
    ReturnPoint =>
        /\ \A s \in Registered : selectors[s].previous = EmptyDigraph
        /\ material.previous = EmptyDigraph
        /\ \A property \in BlockProperties : block_properties[property].previous = EmptyDigraph

(***************************************************************************)
(* C5  As stated: no digraph of a relation, `current` or change-tracking,  *)
(* ever holds an entry of weight 0.  As it holds: no `current` digraph     *)
(* ever holds an entry of weight 0 (the change-tracking digraph records    *)
(* the weight 0 of an entry that was absent).                              *)
(***************************************************************************)
Relations ==
    {selectors[s] : s \in Registered} \cup {material}
        \cup {block_properties[property] : property \in BlockProperties}

\* C5 as stated: no zero entry in `current` nor in `previous`
C5_NoZeroEntryAnywhere ==
    \A r \in Relations :
        /\ \A p \in DOMAIN r.current : r.current[p] # 0
        /\ \A p \in DOMAIN r.previous : r.previous[p] # 0

\* C5 as it holds: no zero entry in the `current` digraph of any relation
C5_NoZeroEntryInCurrent ==
    \A r \in Relations : \A p \in DOMAIN r.current : r.current[p] # 0

\* the folds of a recompute brought an entry of a Bind back to 0 and it was removed
C5_Witness ==
    \E b \in RegisteredBinds : \E p \in DOMAIN selectors[b].previous :
        /\ selectors[b].previous[p] # 0
        /\ p \notin DOMAIN selectors[b].current

C8_RequireIdempotent ==
    LET manager == [selectors |-> selectors, inserted |-> <<>>]
    IN  /\ \A s \in Registered : require(manager, s) = manager
        /\ \A s \in SpellSelector :
              require(require(manager, s), s).selectors = require(manager, s).selectors

\* mutations and a tick have happened and a registered Bind holds entries
C8_Witness ==
    /\ Idle
    /\ ticks >= 1
    /\ updates >= 1
    /\ \E b \in RegisteredBinds : selectors[b].current # EmptyDigraph

(***************************************************************************)
(* C9  Registry closure: both operands of every registered Bind are        *)
(* registered; every require call inserts the operands of a Bind before    *)
(* the Bind itself; no step removes a registered selector.                 *)
(***************************************************************************)
\* C9, the state part: closure, and operands inserted first by every require call
C9_Closed ==
    /\ \A b \in RegisteredBinds : {Left(b), Right(b)} \subseteq Registered
    /\ \A s \in SpellSelector :
          LET r == require([selectors |-> selectors, inserted |-> <<>>], s)
          IN  \A i \in DOMAIN r.inserted : IsBind(r.inserted[i]) =>
                 \A operand \in {Left(r.inserted[i]), Right(r.inserted[i])} :
                    \/ operand \in Registered
                    \/ \E j \in 1..(i - 1) : r.inserted[j] = operand

\* C9: the registry is closed in every state and never shrinks
C9_RegistryClosure ==
    [](C9_Closed) /\ [][DOMAIN selectors \subseteq DOMAIN selectors']_vars

\* a Bind of a Bind is registered
C9_Witness == "BindBI" \in Registered /\ ticks >= 1

(***************************************************************************)
(* C10  for_each_entry of a selector that is not registered aborts: the    *)
(* callback is given no entry and no relation is modified.                 *)
(***************************************************************************)
C10_UnregisteredReadAborts ==
    [][(reading' # "none" /\ reading' \notin DOMAIN selectors) =>
          /\ panicked'
          /\ delivered' = <<>>
          /\ pc' # "for_each_entry"
          /\ selectors' = selectors
          /\ material' = material
          /\ block_properties' = block_properties]_vars

\* a read of an unregistered selector, with relations that hold entries
C10_Witness ==
    /\ panicked
    /\ reading # "none" /\ reading \notin Registered
    /\ \E s \in Registered : selectors[s].current # EmptyDigraph

(***************************************************************************)
(* C11  Recomputing a relation that is not a Bind is a no-op: when         *)
(* recompute_all_caches comes to a registered Is, Adjacent or Not          *)
(* selector, the step neither aborts nor changes any relation.             *)
(***************************************************************************)
C11_NonBindRecomputeIsNoOp ==
    [][(InRecompute /\ ~IsBind(toposort[idx])) =>
          /\ ~panicked'
          /\ selectors' = selectors]_vars

(***************************************************************************)
(* C12  Recomputation is idempotent: in a recompute_all_caches call that   *)
(* follows a returned one with no update of a base relation in between,    *)
(* no step changes the `current` digraph of any relation.                  *)
(***************************************************************************)
C12_RecomputeTwiceIdempotent ==
    [][(pc \in {"recompute", "clear"} /\ ticks >= 1 /\ ~mutated) =>
          \A s \in DOMAIN selectors : selectors'[s].current = selectors[s].current]_vars

\* the second of two calls in succession has run the loops of a Bind that holds entries
C12_Witness ==
    /\ pc = "clear"
    /\ ticks = 1
    /\ ~mutated
    /\ \E b \in RegisteredBinds : selectors[b].current # EmptyDigraph

(***************************************************************************)
(* Definitions the properties of select are stated with.                   *)
(***************************************************************************)
\* select is running for a selector built with the given constructor
Selecting(constructor) == call.op = "select" /\ call.selector[1] = constructor

NoDuplicates(seq) == \A i, j \in DOMAIN seq : seq[i] = seq[j] => i = j

RECURSIVE SumRange(_, _, _)
\* the sum of numbers[first..last]
SumRange(numbers, first, last) ==
    IF first > last
    THEN 0
    ELSE IF first = last
         THEN numbers[first]
         ELSE LET middle == (first + last) \div 2
              IN  SumRange(numbers, first, middle) + SumRange(numbers, middle + 1, last)

\* the sum of the connections of the results with the given target
SumConnections(result, target) ==
    SumRange([i \in DOMAIN result |->
                 IF result[i].target = target THEN result[i].connection ELSE 0],
             1, Len(result))

Targets(result) == {result[i].target : i \in DOMAIN result}

\* the results of a selector at the sources as a sparse matrix over the
\* targets, given by its entries: one (source, target, weight) per pair, the
\* weight being the sum of the connections of the results with that target
RowOf(source, result) ==
    {<<source, target, SumConnections(result, target)>> : target \in Targets(result)}

Relation(selector, sources) ==
    UNION {RowOf(source, select(info, selector, source)) : source \in sources}

\* MulSparseMatrices::entries over such matrices: one triple per pair of an
\* entry of left and an entry of the row of right at its target, here as the
\* pairs themselves
ProductPaths(left, right) ==
    {<<l, r>> \in left \X right : l[2] = r[1]}

PathTriple(path) == <<path[1][1], path[2][2], path[1][3] * path[2][3]>>

RECURSIVE SumPaths(_)
\* the sum of the weights of the triples of the paths
SumPaths(paths) ==
    IF paths = {}
    THEN 0
    ELSE LET path == CHOOSE q \in paths : TRUE
         IN  PathTriple(path)[3] + SumPaths(paths \ {path})

RECURSIVE SelectEach(_, _)
\* the results of the selector at the target of every result, in order
SelectEach(selector, result) ==
    IF result = <<>>
    THEN <<>>
    ELSE <<select(info, selector, Head(result).target)>>
         \o SelectEach(selector, Tail(result))

\* the entries of the product of the relations of the operands of the Bind
\* that select is running for
BindProduct ==
    ProductPaths(Relation(call.selector[2], {call.target}),
                 Relation(call.selector[3],
                          Targets(select(info, call.selector[2], call.target))))

\* the results of the running select as (source, target, weight) triples
ResultTriples ==
    [i \in DOMAIN results |-> <<call.target, results[i].target, results[i].connection>>]

\* the entries of the product and the results are the same triples, each as often
SameTriples(product, triples) ==
    \A triple \in {PathTriple(path) : path \in product}
                  \cup {triples[i] : i \in DOMAIN triples} :
        Cardinality({path \in product : PathTriple(path) = triple})
            = Cardinality({i \in DOMAIN triples : triples[i] = triple})

(***************************************************************************)
(* C13 as stated: Bind(left, right) evaluated at a source yields the       *)
(* composition of the results of left and right, and the entries of the    *)
(* matrix product of left and right are the same (source, target, weight)  *)
(* triples.  Violated: a matrix holds one weight per (source, target), so  *)
(* an operand that yields a target k times is one entry of weight k.       *)
(***************************************************************************)
C13_ProductHasSameTriples ==
    Selecting("Bind") => SameTriples(BindProduct, ResultTriples)

(***************************************************************************)
(* C13  Bind(left, right) is relational composition.  Evaluated at a       *)
(* source, it yields one result (target, w1 * w2) for every result         *)
(* (mid, w1) of left at the source and every result (target, w2) of right  *)
(* at mid, and nothing else.  The entries of the matrix product of the     *)
(* relations of left and right reach the same targets with the same sum    *)
(* of weights, and are the same triples when no result of left or right    *)
(* repeats a target.                                                       *)
(***************************************************************************)
C13_BindIsComposition ==
    Selecting("Bind") =>
        LET left == select(info, call.selector[2], call.target)
            right == SelectEach(call.selector[3], left)
            paths == UNION { { <<i, j>> : j \in DOMAIN right[i] } : i \in DOMAIN left }
            composed == [p \in paths |->
                            [target |-> right[p[1]][p[2]].target,
                             connection |-> left[p[1]].connection
                                            * right[p[1]][p[2]].connection]]
            product == BindProduct
        IN  /\ Len(results) = Cardinality(paths)
            /\ \A v \in {composed[p] : p \in paths} \cup {results[i] : i \in DOMAIN results} :
                  Cardinality({i \in DOMAIN results : results[i] = v})
                      = Cardinality({p \in paths : composed[p] = v})
            /\ {PathTriple(path)[2] : path \in product} = Targets(results)
            /\ \A target \in Targets(results) :
                  SumPaths({path \in product : path[2][2] = target})
                      = SumConnections(results, target)
            /\ (NoDuplicates(left) /\ \A i \in DOMAIN left : NoDuplicates(right[i])) =>
                  SameTriples(product, ResultTriples)

\* a Bind whose left operand yields a target several times, with results of
\* the right operand at some of its results and none at others
C13_Witness ==
    /\ Selecting("Bind")
    /\ ~NoDuplicates(select(info, call.selector[2], call.target))
    /\ Len(results) >= 2
    /\ Len(results) < Len(select(info, call.selector[2], call.target))
    /\ ~SameTriples(BindProduct, ResultTriples)

(***************************************************************************)
(* C14  Bind is associative: Bind(Bind(A, B), C) and Bind(A, Bind(B, C))   *)
(* evaluated at the same source against the same world yield the same      *)
(* results.                                                                *)
(***************************************************************************)
C14_BindAssociative ==
    (Selecting("Bind") /\ call.selector[2][1] = "Bind") =>
        LET a == call.selector[2][2]
            b == call.selector[2][3]
            c == call.selector[3]
        IN  results = select(info, Bind(a, Bind(b, c)), call.target)

\* a Bind of a Bind where some middle results lead on and some do not
C14_Witness ==
    /\ Selecting("Bind")
    /\ call.selector = Bind(Bind(Adjacent, Adjacent), Is("Burning"))
    /\ Len(results) >= 2
    /\ Len(results) < Len(select(info, Bind(Adjacent, Adjacent), call.target))

C16_IsYieldsSourceOnly ==
    Selecting("Is") =>
        results = IF info_get(info, call.target, call.selector[2]) # 0
                  THEN <<[target |-> call.target, connection |-> 1]>>
                  ELSE <<>>

\* the stored value is neither 0.0 nor 1.0
C16_Witness ==
    /\ Selecting("Is")
    /\ info_get(info, call.target, call.selector[2]) \notin {0, ONE}
    /\ results # <<>>

(***************************************************************************)
(* C17  Adjacency of a Block(x, y): every Block handed out lies inside     *)
(* the grid, is not the source and is one of its 8 neighbours; the         *)
(* neighbours inside the grid are handed out once each, those outside are  *)
(* skipped.  The Blocks handed out for an Entity lie inside the grid too.  *)
(***************************************************************************)
C17_AdjacentStaysInGrid ==
    Selecting("Adjacent") =>
        LET blocks == {i \in DOMAIN results : IsBlock(results[i].target)}
            x == call.target[2]
            y == call.target[3]
        IN  /\ \A i \in blocks : in_grid(results[i].target[2], results[i].target[3])
            /\ IsBlock(call.target) =>
                  /\ \A i \in blocks :
                        /\ results[i].target # call.target
                        /\ results[i].target[2] - x \in -1..1
                        /\ results[i].target[3] - y \in -1..1
                  /\ \A dx \in -1..1, dy \in -1..1 :
                        ((dx # 0 \/ dy # 0) /\ in_grid(x + dx, y + dy)) =>
                            Cardinality({i \in blocks :
                                            results[i].target = Block(x + dx, y + dy)}) = 1

\* the cell in the far corner of the grid: 3 of its 8 neighbours exist
C17_Witness ==
    /\ Selecting("Adjacent")
    /\ call.target = Block(GRID_SIZE - 1, GRID_SIZE - 1)
    /\ Cardinality({i \in DOMAIN results : IsBlock(results[i].target)}) = 3

(***************************************************************************)
(* C18  Adjacency is symmetric: every target b that adjacency hands out    *)
(* for a target a has a handed out for it in turn.                         *)
(***************************************************************************)
C18_AdjacentSymmetric ==
    Selecting("Adjacent") =>
        \A i \in DOMAIN results :
            \E j \in DOMAIN select(info, Adjacent, results[i].target) :
                select(info, Adjacent, results[i].target)[j].target = call.target

(***************************************************************************)
(* Definitions the properties of step are stated with.                     *)
(***************************************************************************)
RECURSIVE RightNested(_)
\* Bind(s1, Bind(s2, .. sn)) for the list <<s1, .., sn>>, n >= 1
RightNested(list) ==
    IF Len(list) = 1
    THEN list[1]
    ELSE Bind(Head(list), RightNested(Tail(list)))

\* step is in the iteration of its loop for a rule
InRule == call.op = "step" /\ call.rule <= Len(call.update_rules)

(***************************************************************************)
(* C19  The selector list <<s1, .., sn>> of a rule is composed as          *)
(* Bind(s1, Bind(s2, .. sn)), and a rule with an empty list behaves as     *)
(* Identity: stepping it is no fatal error, and its only candidate is the  *)
(* source itself with weight 1.0.  Violated: only_run_on aborts for a rule *)
(* with an empty list and no drain.                                        *)
(***************************************************************************)
C19_EmptyListIsIdentity ==
    InRule =>
        /\ CurrentRule.selectors # <<>> =>
              CurrentRule.spell =
                  Select(RightNested(CurrentRule.selectors), CurrentRule.spell[3])
        /\ CurrentRule.selectors = <<>> =>
              /\ ~(panicked /\ call.pc = "rule")
              /\ call.pc = "results" =>
                    /\ Len(results) <= 1
                    /\ \A i \in DOMAIN results :
                          results[i].target = SpellTarget_new(Head(call.target_list))
                    /\ applied # None =>
                          unwrap(applied).target = SpellTarget_new(Head(call.target_list))

(***************************************************************************)
(* C20  spell_update applies the effects of a rule to a candidate only if  *)
(* the draw is strictly below rate * weight: a rule with rate 0 never      *)
(* applies its effects, and with rate = +infinity the effects are applied  *)
(* for every candidate.  Violated: the code skips a candidate only when    *)
(* draw > rate, so a draw equal to the rate applies the effects, also for  *)
(* rate 0.                                                                 *)
(***************************************************************************)
C20_FiresOnlyBelowRateTimesWeight ==
    (InRule /\ applied # None) =>
        LET result == unwrap(applied)
            rate == call.update_rules[result.rule].rate
        IN  /\ result.fired => result.draw < rate * result.target.connection
            /\ rate = 0 => ~result.fired
            /\ rate = INFINITY => result.fired

(***************************************************************************)
(* C21  Within one step the rules run strictly in list order: the loop     *)
(*      moves from rule N to rule N + 1 only when every target of rule N   *)
(*      has been updated, and the target list of a rule is computed when   *)
(*      its turn comes, from the world all earlier updates of this step    *)
(*      have been applied to; so rule N + 1 sees what rule N changed.      *)
(***************************************************************************)
C21_RulesRunInListOrder ==
    [][(call.op = "step" /\ call'.op = "step") =>
          /\ call'.rule \in {call.rule, call.rule + 1}
          /\ call'.rule = call.rule + 1 =>
                /\ call.pc = "update" /\ call.target_list = <<>> /\ results = <<>>
                /\ call'.pc = "rule"
          /\ (call.pc = "rule" /\ call'.pc = "update") =>
                LET property == only_run_on(call.update_rules[call.rule])
                IN  /\ info' = info
                    /\ NoDuplicates(call'.target_list)
                    /\ {call'.target_list[i] : i \in DOMAIN call'.target_list} =
                          {target \in Known(info') : info_get(info', target, property) # 0}]_vars

\* the second rule is about to update a block that burns only because the
\* first rule lit it in this step
C21_Witness ==
    /\ Stepping("update")
    /\ call.rule = 2
    /\ \E i \in DOMAIN call.target_list :
          /\ IsBlock(call.target_list[i])
          /\ call.target_list[i] # Block(0, 0)

(***************************************************************************)
(* C22  Send and Add of a dynamic property are an idempotent set: once the *)
(*      effect has been applied to a target, the target's scalar for the   *)
(*      property is exactly 1.0, however often it was applied to the       *)
(*      target before in this step, and no scalar ever exceeds 1.0.        *)
(***************************************************************************)
C22_SendIsIdempotentSet ==
    /\ \A key \in DOMAIN info.properties : info.properties[key] <= ONE
    /\ (InRule /\ applied # None /\ ~panicked) =>
          LET result == unwrap(applied)
          IN  (result.fired /\ result.effects \in {<<Send("Burning")>>, <<Add("Burning")>>}) =>
                  info_get(info, result.target.target, "Burning") = ONE

\* the second rule of the step has sent Burning to a block the first rule had
\* sent it to already
C22_Witness ==
    /\ InRule /\ ~panicked
    /\ applied # None
    /\ call.rule = 2
    /\ unwrap(applied).rule = 2
    /\ unwrap(applied).fired
    /\ unwrap(applied).effects = <<Send("Burning")>>
    /\ IsBlock(unwrap(applied).target.target)
    /\ unwrap(applied).target.target # Block(0, 0)

(***************************************************************************)
(* C23  Receive and Remove of a dynamic property both set the target's     *)
(*      scalar for the property to 0.0, and a rule whose effect list holds *)
(*      a Remove completes the step without a fatal error.                 *)
(***************************************************************************)
C23_ReceiveAndRemoveClear ==
    (InRule /\ applied # None) =>
        LET result == unwrap(applied)
        IN  (result.fired /\ result.effects \in {<<Receive("Burning")>>, <<Remove("Burning")>>}) =>
                /\ ~panicked
                /\ info_get(info, result.target.target, "Burning") = 0

(***************************************************************************)
(* C24  After a Summon in an effect list every later effect of the list is *)
(*      applied to the entity that was summoned, and every effect before   *)
(*      the Summon to the target of the result.                            *)
(***************************************************************************)
C24_SummonRedirectsLaterEffects ==
    (InRule /\ applied # None /\ ~panicked) =>
        LET result == unwrap(applied)
            original == result.target.target
            summoned == Entity(commands[Len(commands)])
        IN  /\ (result.fired /\ result.effects = <<Send("Burning"), Summon, Add("Forwards")>>) =>
                  /\ summoned # original
                  /\ info_get(info, original, "Burning") = ONE
                  /\ info_get(info, original, "Forwards") = 0
                  /\ info_get(info, summoned, "Burning") = 0
                  /\ info_get(info, summoned, "Forwards") = ONE
            /\ (result.fired /\ result.effects = <<Summon, Add("Forwards")>>) =>
                  /\ summoned # original
                  /\ info_get(info, original, "Forwards") = 0
                  /\ info_get(info, summoned, "Forwards") = ONE

\* Send, Summon, Add has been applied to an entity that was not burning at 1.0
C24_Witness ==
    /\ InRule /\ ~panicked
    /\ applied # None
    /\ unwrap(applied).fired
    /\ unwrap(applied).effects = <<Send("Burning"), Summon, Add("Forwards")>>
    /\ Len(commands) = 1
    /\ info_get(info, Entity(commands[1]), "Forwards") = ONE

\* the cells of the grid around the cell (x, y)
Neighbours8(x, y) ==
    {c \in {<<x + dx, y + dy>> : dx \in -1..1, dy \in -1..1} :
        c # <<x, y>> /\ in_grid(c[1], c[2])}

\* the rule that is running fires on every draw
Forced == InRule /\ CurrentRule.rate = 100

BurningCoal(world, target) ==
    /\ IsBlock(target)
    /\ info_get(world, target, "Coal") # 0
    /\ info_get(world, target, "Burning") # 0

\* every air cell around a burning coal cell burns at 1.0
AirAroundCoalBurns ==
    \A source \in Known(info) :
        BurningCoal(info, source) =>
            \A c \in Neighbours8(source[2], source[3]) :
                info_get(info, Block(c[1], c[2]), AIR) # 0 =>
                    info_get(info, Block(c[1], c[2]), "Burning") = ONE

\* what the rule writes while it updates the head of its target list: Burning
\* = 1.0 of air cells around that cell, which is burning coal
OnlyAirAroundCoalWritten ==
    /\ info'.blocks = info.blocks
    /\ info'.entity_colliders = info.entity_colliders
    /\ DOMAIN info.properties \subseteq DOMAIN info'.properties
    /\ \A key \in DOMAIN info'.properties :
          (key \notin DOMAIN info.properties \/ info'.properties[key] # info.properties[key]) =>
              LET source == Head(call.target_list)
              IN  /\ call.target_list # <<>>
                  /\ BurningCoal(info, source)
                  /\ key[2] = "Burning"
                  /\ IsBlock(key[1])
                  /\ <<key[1][2], key[1][3]>> \in Neighbours8(source[2], source[3])
                  /\ info_get(info, key[1], AIR) # 0
                  /\ info'.properties[key] = ONE

(***************************************************************************)
(* C25  When the rule [Is(coal), Is(Burning), Adjacent, Is(air)] with the  *)
(*      effect Send(Burning) is stepped at rate 1.0, then once the rule    *)
(*      has updated all its targets every air cell of the grid around a    *)
(*      burning coal cell has Burning = 1.0, and the rule has changed the  *)
(*      Burning of no cell that is not an air cell around burning coal.    *)
(***************************************************************************)
C25_BurningCoalLightsAdjacentAir ==
    /\ []((Forced /\ Stepping("update") /\ call.target_list = <<>>) => AirAroundCoalBurns)
    /\ [][Forced => OnlyAirAroundCoalWritten]_vars

\* the rule has lit the air cell diagonal to burning coal in the corner of
\* the grid and has left the Burning of the water next to it as it was
C25_Witness ==
    /\ Forced /\ Stepping("update") /\ call.target_list = <<>>
    /\ BurningCoal(info, Block(0, 0))
    /\ info_get(info, Block(1, 0), "Water") # 0
    /\ info_get(info, Block(1, 0), "Burning") = 5
    /\ info_get(info, Block(1, 1), AIR) # 0
    /\ info_get(info, Block(1, 1), "Burning") = ONE
    /\ info_get(info, Block(0, 1), "Burning") = ONE

\* the ids of ALL_BLOCK_DATA
Material == {"Air", "Stone", "Water", "Sand", "Wood", "Coal", "Fire", "Smoke", "Steam"}

\* the number of cells of the grid that hold the material
CountOf(world, id) ==
    IF id = AIR
    THEN GRID_SIZE * GRID_SIZE
            - Cardinality({c \in DOMAIN world.blocks : world.blocks[c].id # AIR})
    ELSE Cardinality({c \in DOMAIN world.blocks : world.blocks[c].id = id})

\* the step is in the loop over the targets of the rule Gravity or Liquid
InPhysics(kind) == InRule /\ ~IsSpell(CurrentRule) /\ CurrentRule.update = kind

(***************************************************************************)
(* C26  Gravity conserves the materials: an update of the rule Gravity     *)
(*      leaves the number of cells of every material as it was (it only    *)
(*      exchanges the blocks of two cells), and it writes no cell outside  *)
(*      the grid.                                                          *)
(***************************************************************************)
C26_GravityConservesMaterials ==
    [][InPhysics("Gravity") =>
          /\ \A id \in Material : CountOf(info', id) = CountOf(info, id)
          /\ \A c \in DOMAIN info'.blocks : in_grid(c[1], c[2])
          /\ \A c \in DOMAIN info'.blocks :
                get_block(info', c[1], c[2]) # get_block(info, c[1], c[2]) =>
                    \E c2 \in {<<c[1], c[2] - 1>>, <<c[1], c[2] + 1>>} :
                        /\ in_grid(c2[1], c2[2])
                        /\ unwrap(get_block(info', c[1], c[2])).id
                              = unwrap(get_block(info, c2[1], c2[2])).id
                        /\ unwrap(get_block(info', c2[1], c2[2])).id
                              = unwrap(get_block(info, c[1], c[2])).id]_vars

\* the water that was set at (0, 1) has fallen to (0, 0), the bottom row, in
\* this step, and the air it displaced is at (0, 1)
C26_Witness ==
    /\ InPhysics("Gravity")
    /\ unwrap(get_block(info, 0, 0)).id = "Water"
    /\ unwrap(get_block(info, 0, 0)).MOVED_THIS_STEP
    /\ <<0, 1>> \in DOMAIN info.blocks
    /\ unwrap(get_block(info, 0, 1)).id = AIR

\* the cells whose material an update has changed: the cells of its swaps
Swapped(world, after) ==
    {c \in DOMAIN after.blocks :
        unwrap(get_block(after, c[1], c[2])).id # unwrap(get_block(world, c[1], c[2])).id}

(***************************************************************************)
(* C27  After every swap of gravity_update both cells of the swap hold a   *)
(*      block with the flag moved-this-step, whatever the physics of the   *)
(*      block that was displaced (air included).                           *)
(***************************************************************************)
C27_BothCellsMoved ==
    [][InPhysics("Gravity") =>
          \A c \in Swapped(info, info') : info'.blocks[c].MOVED_THIS_STEP]_vars

\* the cell holds a liquid with the flag POWDER_STABLE
Settled(world, c) ==
    /\ c \in DOMAIN world.blocks
    /\ world.blocks[c].POWDER_STABLE
    /\ data(world.blocks[c]).physics = "Liquid"

\* the cells of the 3x3 neighbourhood of the cell
Around(c) == {c2 \in Neighbours8(c[1], c[2]) \cup {c} : TRUE}

C30_SandSettlesOnFloor ==
    (WorldIdle /\ steps = SandTicks) =>
        /\ \A c \in DOMAIN info.blocks : info.blocks[c].id = "Sand" => c[2] <= 9
        /\ CountOf(info, "Sand") = 25


\* every column of the grid
Columns == 0..(GRID_SIZE - 1)

\* a row of the running BlockGrid::step has been scanned
RowScanned == GridScanning /\ call.updated # <<>>

\* C29: in every BlockGrid::step, whichever way xs runs, each rule is applied to
\* every cell of each row (every x of 0..GRID_SIZE) exactly once, and the
\* direction of the x scan alternates between consecutive steps
C29_EveryCellOnceAndAlternates ==
    /\ [](RowScanned =>
            /\ {c[1] : c \in {call.updated[i] : i \in DOMAIN call.updated}} = Columns
            /\ Len(call.updated) = GRID_SIZE
            /\ \A i \in DOMAIN call.updated : call.updated[i][2] = call.y - 1)
    /\ [][/\ (call.op = "BlockGrid_step" /\ call'.op = "none")
                => flip_sim_dir' = ~flip_sim_dir
          /\ (call.op = "none" /\ call'.op = "BlockGrid_step")
                => /\ flip_sim_dir' = flip_sim_dir
                   /\ call'.xs[1] = IF flip_sim_dir THEN GRID_SIZE - 1 ELSE 0]_vars


\* the cells of the BlockGrid that hold a block of physics Solid
SolidCells(g) == {c \in DOMAIN g : data(g[c]).physics = "Solid"}

\* C31: a Solid block (Stone, Wood) does not move and cannot be pushed: whatever
\* update rule is applied, to whatever cell, every Solid block is afterwards in
\* the cell it was in
C31_SolidBlocksStay ==
    [][\A c \in SolidCells(grid) : c \in DOMAIN grid' /\ grid'[c].id = grid[c].id]_vars


\* the cells of the grid within `dist` of (x, y), (x, y) apart
Near(x, y, dist) ==
    {c \in ((x - dist)..(x + dist)) \X ((y - dist)..(y + dist)) :
        in_grid(c[1], c[2]) /\ c # <<x, y>>}

\* the ways to give every other reagent of the rule a cell of its own near
\* (x, y) that holds a block the reagent matches
Pairings(rule, g, x, y) ==
    LET others == rule.other_reagents
        near == UNION {Near(x, y, others[i][1]) : i \in DOMAIN others}
    IN  {sel \in [DOMAIN others -> near] :
            /\ \A i \in DOMAIN others :
                  /\ sel[i] \in Near(x, y, others[i][1])
                  /\ Reagent_matches(others[i][2], BlockGrid_get(g, sel[i][1], sel[i][2]))
            /\ \A i, j \in DOMAIN others : sel[i] = sel[j] => i = j}

\* `after` is `before` with the effects of the main reagent applied to (x, y) and
\* the effects of every other reagent applied to its cell, and nothing else
AllApplied(rule, before, after, x, y, sel) ==
    \A c \in DOMAIN before \cup DOMAIN after \cup {<<x, y>>}
                \cup {sel[i] : i \in DOMAIN sel} :
        BlockGrid_get(after, c[1], c[2]) =
            IF c = <<x, y>>
            THEN Reagent_update(rule.main_reagent, BlockGrid_get(before, x, y))
            ELSE IF \E i \in DOMAIN sel : sel[i] = c
            THEN Reagent_update(rule.other_reagents[CHOOSE i \in DOMAIN sel : sel[i] = c][2],
                                BlockGrid_get(before, c[1], c[2]))
            ELSE BlockGrid_get(before, c[1], c[2])

\* C36: ChemicalUpdateRule::update is all or nothing: either the grid is left as
\* it was, or the main cell matches, every other reagent has a matching cell of
\* its own near the main cell, and the effects of all of them are applied
C36_ChemicalAllOrNothing ==
    [][applied' # None =>
          LET a == unwrap(applied')
          IN  \/ grid' = grid
              \/ /\ Reagent_matches(a.rule.main_reagent, BlockGrid_get(grid, a.x, a.y))
                 /\ \E sel \in Pairings(a.rule, grid, a.x, a.y) :
                       AllApplied(a.rule, grid, grid', a.x, a.y, sel)]_vars

\* a rule with two other reagents has been applied and has written the grid
C36_Witness ==
    /\ applied # None
    /\ Len(unwrap(applied).rule.other_reagents) = 2
    /\ unwrap(applied).changed


\* parse_rules_file has returned
Parsed == call.op = "parse_rules_file" /\ results # <<>>

\* the parts of the parsed file that hold a text
Texts(parts) == {i \in DOMAIN parts : Sample[parts[i].part] # NoRule}

\* what stands between the text of part i and the next text, or the end of the file
Between(parts, i) ==
    LET later == {j \in Texts(parts) : j > i}
        last == IF later = {} THEN Len(parts) ELSE (CHOOSE j \in later : \A k \in later : j <= k) - 1
    IN  Concat([j \in 1..((last - i) + 1) |-> parts[(i + j) - 1].then])

\* every text is a rule and every rule but the last is followed, after spaces
\* at most, by a line ending
EachRuleOnItsLine(parts) ==
    \A i \in Texts(parts) :
        /\ Sample[parts[i].part].rule # None
        /\ (\E j \in Texts(parts) : j > i) =>
              \E k \in DOMAIN Between(parts, i) : Between(parts, i)[k] = "\n"

RECURSIVE RulesOf(_)
\* the rules of the texts, in the order of the file
RulesOf(parts) ==
    IF parts = <<>>
    THEN <<>>
    ELSE (IF Sample[Head(parts).part].rule = None
          THEN <<>>
          ELSE <<unwrap(Sample[Head(parts).part].rule)>>)
             \o RulesOf(Tail(parts))

\* C32: the parser of rules files requires a line ending (or the end of the
\* input) after every rule: a file of rules each on a line of its own, blank
\* lines and rules without selectors included, yields all its rules, and any
\* other file, two rules on one line included, yields an error and never a part
\* of the rules
C32_RuleEndsItsLine ==
    Parsed =>
        results[1] = IF EachRuleOnItsLine(call.parts)
                     THEN ExprOk(RulesOf(call.parts))
                     ELSE ExprErr

\* two rules on one line were rejected
C32_Witness ==
    /\ Parsed
    /\ Texts(call.parts) = {1, 2}
    /\ \A i \in {1, 2} : Sample[call.parts[i].part].rule # None
    /\ call.parts[1].then = <<" ">>
    /\ results[1] = ExprErr

\* a file with a blank line between rules and a rule without selectors was accepted
C32_WitnessAccepted ==
    /\ Parsed
    /\ call.parts[1].then = <<"\n", "\n">>
    /\ Sample[call.parts[2].part].rule # None
    /\ unwrap(Sample[call.parts[2].part].rule).selectors = <<>>
    /\ results[1].kind = "Ok" /\ Len(results[1].value) = 2

(***************************************************************************)
(* C33  Lazy registration keeps relations correct: when                    *)
(* recompute_all_caches is about to return, the `current` relation of      *)
(* every registered Bind(L, R), also of one that require inserted after    *)
(* L or R held entries and a tick had cleared their changes, is the        *)
(* relational product of the `current` relations of L and R.               *)
(***************************************************************************)
C33_LateBindIsFullProduct ==
    ReturnPoint =>
        \A b \in RegisteredBinds \ early :
            selectors[b].current =
                RelationalProduct(selectors[Left(b)].current, selectors[Right(b)].current)

(***************************************************************************)
(* C34  recompute_all_caches always terminates: no step of it waits for    *)
(* ever for the lock of a relation, whatever selectors are registered, a   *)
(* Bind of a selector with itself included.  A call that is blocked        *)
(* holds the lock it waits for and takes no further step.                  *)
(***************************************************************************)
C34_NoStepBlocks == pc # "blocked"

(***************************************************************************)
(* C35  At most one move per tick: within one step of the Gravity and      *)
(* Liquid rules a block that is not air and that an update has swapped     *)
(* (it carries MOVED_THIS_STEP, which step has reset at its start) is not  *)
(* swapped again by a later update, by liquid_update or by a second        *)
(* gravity_update: the cell it is in keeps its material.                   *)
(***************************************************************************)
C35_MovedBlockStays ==
    [][(Stepping("update") /\ ~IsSpell(CurrentRule)) =>
          \A c \in DOMAIN info.blocks :
              (info.blocks[c].MOVED_THIS_STEP /\ info.blocks[c].id # AIR) =>
                  unwrap(get_block(info', c[1], c[2])).id = info.blocks[c].id]_vars

\* the calls of f that compute_parallel owes a vector of the length: one per
\* index, by the task of the chunk of the index, on the element at the index
EachIndexOnce(length) ==
    {[task |-> i \div ASYNC_CHUNK_SIZE, i |-> i, element |-> i] : i \in 0..(length - 1)}

(***************************************************************************)
(* C37  compute_parallel invokes f(i, &mut vec[i]) exactly once for every  *)
(* index i of vec and for no other index, hands no element to two tasks,   *)
(* and returns normally, for a vector of any length: no call of it         *)
(* panics, no element is ever given to f by two tasks, and when it has     *)
(* returned the calls of f are exactly one per index.                      *)
(***************************************************************************)
C37_EveryIndexOnce ==
    call.op = "compute_parallel" =>
        /\ ~panicked
        /\ \A a, b \in call.invoked : a.element = b.element => a = b
        /\ call.returned => call.invoked = EachIndexOnce(call.length)

\* the Mana of the rule "Create water" that the player holds
PlayerMana(world) == info_get(world, Entity(1), Mana(0))

\* spell_update has come to the end of its loop over the results
Draining == Stepping("results") /\ results = <<>>

====
